---- MODULE Spec2Model ----
(***************************************************************************)
(* Model of the dfcoder workshop scheduler (crates/dfcoder-core):          *)
(* WorkshopManager in coordination.rs over the Agent / Task value types of *)
(* agents.rs.  Each public operation of WorkshopManager is one action.     *)
(* HashMap iteration order is arbitrary, so every choice the code makes by *)
(* iterating a HashMap is a nondeterministic choice here.                  *)
(***************************************************************************)
EXTENDS Integers, Sequences, FiniteSets, TLC

(* ------------------------------ bounds -------------------------------- *)
NumAgents == 2
NumTasks == 2
MaxTime == 1
MaxCapacity == 1
MaxQueued == 3
NumRuns == 2
MaxAttempts == 3
MaxBackoffAttempt == 66
MaxExecutions == 2
MaxWords == 3
MaxHistory == 3
MaxClock == 60
ClockStep == 30
MaxOptionId == 6

(* --------------------------- value domains ---------------------------- *)
\* Option<T>: None, Some(x)
None == <<>>
Some(x) == <<x>>
Unwrap(o) == o[1]

AgentRole == {"Scaffolder", "Implementer", "Debugger", "Tester"}

\* roles of the agents and tasks the model feeds in
InputRoles == {"Scaffolder", "Implementer"}

AgentIds == {<<"agent", i>> : i \in 1..NumAgents}
TaskIds == {<<"task", i>> : i \in 1..NumTasks}

\* #[derive(PartialOrd, Ord)] on TaskPriority: declaration order
PriorityRank(p) ==
    CASE p = "Low" -> 0
      [] p = "Normal" -> 1
      [] p = "High" -> 2
      [] p = "Critical" -> 3

\* #[derive(PartialOrd, Ord)] on TaskComplexity: declaration order
ComplexityRank(c) ==
    CASE c = "Simple" -> 0
      [] c = "Medium" -> 1
      [] c = "Complex" -> 2
      [] c = "Expert" -> 3

(* ------------------------------- text --------------------------------- *)
\* A text is a sequence of words.  str::to_lowercase, word by word.
ToLowercaseWord(w) ==
    CASE w = "Fix" -> "fix"
      [] w = "Design" -> "design"
      [] w = "Implement" -> "implement"
      [] w = "Bugfix" -> "bugfix"
      [] w = "Error" -> "error"
      [] OTHER -> w

to_lowercase(text) == [i \in 1..Len(text) |-> ToLowercaseWord(text[i])]

\* whether keyword kw occurs inside the (single) word w
WordContains(w, kw) ==
    \/ w = kw
    \/ w = "bugfix" /\ kw \in {"bug", "fix"}
    \/ w = "features" /\ kw = "feature"

\* str::contains for a one-word pattern
contains(text, kw) == \E i \in 1..Len(text) : WordContains(text[i], kw)

WordLen(w) ==
    CASE w \in {"Fix", "fix", "bug", "the"} -> 3
      [] w \in {"Design", "design", "Bugfix", "bugfix"} -> 6
      [] w \in {"Implement", "implement"} -> 9
      [] w \in {"feature", "complex", "network"} -> 7
      [] w = "rate" -> 4
      [] w = "features" -> 8
      [] w = "architecture" -> 12
      [] w = "integration" -> 11
      [] OTHER -> 5

RECURSIVE SumWordLen(_)
SumWordLen(text) ==
    IF text = <<>> THEN 0 ELSE WordLen(Head(text)) + SumWordLen(Tail(text))

\* str::len of words joined by single spaces
TextLen(text) == IF text = <<>> THEN 0 ELSE SumWordLen(text) + Len(text) - 1

(* --------------------------- sequence helpers ------------------------- *)
Range(s) == {s[i] : i \in 1..Len(s)}

\* VecDeque::remove(index), 1-based
RemoveAt(s, i) == SubSeq(s, 1, i - 1) \o SubSeq(s, i + 1, Len(s))

\* VecDeque::insert(index, x), 1-based position of the new element
InsertAt(s, i, x) == SubSeq(s, 1, i - 1) \o <<x>> \o SubSeq(s, i, Len(s))

\* Vec::retain(|id| id != x)
Retain(s, x) == SelectSeq(s, LAMBDA y : y # x)

(* ------------------------ agents.rs: Agent, Task ---------------------- *)
\* f32 ratios are kept exact as <<numerator, denominator>>
Ratio(n, d) == <<n, d>>
RatioLeq(x, y) == x[1] * y[2] <= y[1] * x[2]

AgentMetricsDefault ==
    [tasks_completed |-> 0, tasks_failed |-> 0, success_rate |-> Ratio(0, 1),
     help_requests |-> 0, last_error |-> None]

\* Agent::new(role, _): Idle, no task.  The field elapsed stands for
\* last_activity.elapsed(): 0 whenever the code sets last_activity to
\* Instant::now(), and growing with the clock while the agent is Working
\* (is_stuck, its only reader in the manager, asks for Working)
AgentNew(id, role) ==
    [id |-> id, role |-> role, current_task |-> None, status |-> "Idle",
     elapsed |-> 0, metrics |-> AgentMetricsDefault]

\* faulty variant of Agent::assign_task: the status check is left out
Agent_assign_task_unchecked(agent, task_id) ==
    [ok |-> TRUE,
     agent |-> [agent EXCEPT !.current_task = Some(task_id),
                             !.status = "Working",
                             !.elapsed = 0]]

\* Agent::assign_task(task_id) -> Result<(), String>
Agent_assign_task(agent, task_id) ==
    IF agent.status # "Idle"
    THEN [ok |-> FALSE, agent |-> agent]
    ELSE [ok |-> TRUE,
          agent |-> [agent EXCEPT !.current_task = Some(task_id),
                                  !.status = "Working",
                                  !.elapsed = 0]]

\* Agent::complete_task() -> Result<TaskId, String>
Agent_complete_task(agent) ==
    IF agent.current_task = None
    THEN [ok |-> FALSE, agent |-> agent, task_id |-> None]
    ELSE LET done == agent.metrics.tasks_completed + 1
             total == done + agent.metrics.tasks_failed
         IN [ok |-> TRUE,
             task_id |-> agent.current_task,
             agent |-> [agent EXCEPT !.current_task = None,
                                     !.status = "Idle",
                                     !.elapsed = 0,
                                     !.metrics.tasks_completed = done,
                                     !.metrics.success_rate = Ratio(done, total)]]

\* faulty variant of Agent::fail_task: reads the task with clone() instead of
\* take(), so the failed agent keeps its current_task
Agent_fail_task_keeps_task(agent, error) ==
    IF agent.current_task = None
    THEN [ok |-> FALSE, agent |-> agent, task_id |-> None]
    ELSE [ok |-> TRUE,
          task_id |-> agent.current_task,
          agent |-> [agent EXCEPT !.status = "Error",
                                  !.elapsed = 0,
                                  !.metrics.tasks_failed = @ + 1,
                                  !.metrics.last_error = Some(error)]]

\* Agent::fail_task(error) -> Result<TaskId, String>
Agent_fail_task(agent, error) ==
    IF agent.current_task = None
    THEN [ok |-> FALSE, agent |-> agent, task_id |-> None]
    ELSE LET failed == agent.metrics.tasks_failed + 1
             total == agent.metrics.tasks_completed + failed
         IN [ok |-> TRUE,
             task_id |-> agent.current_task,
             agent |-> [agent EXCEPT !.current_task = None,
                                     !.status = "Error",
                                     !.elapsed = 0,
                                     !.metrics.tasks_failed = failed,
                                     !.metrics.last_error = Some(error),
                                     !.metrics.success_rate =
                                         IF total > 0
                                         THEN Ratio(agent.metrics.tasks_completed, total)
                                         ELSE @]]

\* Agent::request_help()
Agent_request_help(agent) ==
    [agent EXCEPT !.status = "NeedsSupervision",
                  !.metrics.help_requests = @ + 1,
                  !.elapsed = 0]

\* faulty variant of is_stuck: an agent is stuck as soon as the threshold is
\* reached
Agent_is_stuck_at_threshold(agent, threshold) ==
    agent.status = "Working" /\ agent.elapsed >= threshold

\* Agent::is_stuck(threshold): last_activity.elapsed() > threshold
Agent_is_stuck(agent, threshold) ==
    agent.status = "Working" /\ agent.elapsed > threshold

\* Task::new(title, description, required_role, priority) plus the
\* dependency list the caller pushes into context.dependencies
TaskNew(id, title, description, role, priority, deps) ==
    [id |-> id, title |-> title, description |-> description,
     required_role |-> role, status |-> "Pending", assignee |-> None,
     context |-> [dependencies |-> deps, priority |-> priority]]

\* faulty variant of Task::dependencies_satisfied: ignores the dependency list
dependencies_satisfied_always(task, completed) == TRUE

\* Task::dependencies_satisfied(completed_tasks)
dependencies_satisfied(task, completed) ==
    \A i \in 1..Len(task.context.dependencies) :
        task.context.dependencies[i] \in Range(completed)

\* Task::assign_to(agent_id) then Task::start()
Task_assign_and_start(task, agent_id) ==
    [task EXCEPT !.assignee = Some(agent_id), !.status = "InProgress"]

(* ----------------- retry.rs: RetryPolicy, RetryExecutor --------------- *)
ErrorType ==
    {"NetworkError", "RateLimitError", "AuthError", "ResourceUnavailable",
     "ParseError", "ComplexityError", "Retryable", "Fatal"}

\* RetryPolicy::default(); durations are in whole seconds
RetryPolicyDefault ==
    [max_attempts |-> 3, initial_backoff |-> 1, backoff_multiplier |-> 2,
     max_backoff |-> 30,
     retry_on |-> {"NetworkError", "RateLimitError", "ResourceUnavailable",
                   "Retryable"}]

\* The policies of the model have an initial_backoff and a backoff_multiplier
\* that are powers of two: for these the f32 product
\* initial_backoff.as_secs_f32() * backoff_multiplier.powi(attempt - 1) is
\* exact, and equals 2^(Log2(initial) + Log2(multiplier) * (attempt - 1)).
Log2(x) ==
    CASE x = 1 -> 0
      [] x = 2 -> 1
      [] x = 4 -> 2

Min(a, b) == IF a <= b THEN a ELSE b

\* RetryPolicy::calculate_backoff(attempt).  Duration::from_secs_f32 panics
\* when the value does not fit a Duration (2^64 seconds or more, or an
\* infinite f32); the cap by max_backoff is applied after the conversion.
\* From 2^31 seconds on the value exceeds every max_backoff of the model.
calculate_backoff(policy, attempt) ==
    IF attempt = 0
    THEN [ok |-> TRUE, secs |-> 0]
    ELSE LET exp == Log2(policy.initial_backoff)
                       + Log2(policy.backoff_multiplier) * (attempt - 1)
         IN IF exp >= 64
            THEN [ok |-> FALSE, secs |-> 0]
            ELSE IF exp >= 31
            THEN [ok |-> TRUE, secs |-> policy.max_backoff]
            ELSE [ok |-> TRUE, secs |-> Min(2^exp, policy.max_backoff)]

\* faulty variant of should_retry: every error class is retried
should_retry_always(policy, error) == TRUE

\* RetryPolicy::should_retry(error)
should_retry(policy, error) == error \in policy.retry_on

\* RetryExecutor::execute_single_attempt(_agent, task, attempt); the
\* description is searched as it stands (no lower-casing)
execute_single_attempt(task, attempt) ==
    IF attempt = 1 /\ contains(task.description, "network")
    THEN [ok |-> FALSE, error |-> "NetworkError"]
    ELSE IF attempt <= 2 /\ contains(task.description, "rate")
    THEN [ok |-> FALSE, error |-> "RateLimitError"]
    ELSE IF contains(task.description, "fatal")
    THEN [ok |-> FALSE, error |-> "Fatal"]
    ELSE [ok |-> TRUE, error |-> None]

\* RetryError values
MaxAttemptsExceeded(n) == <<"MaxAttemptsExceeded", n>>
NonRetryable(error) == <<"NonRetryable", error>>

RECURSIVE SumSecs(_)
SumSecs(log) ==
    IF log = <<>> THEN 0
    ELSE (IF Head(log)[1] = "sleep" THEN Head(log)[2] ELSE 0) + SumSecs(Tail(log))

\* An execute_task invocation: its arguments, its locals (the loop variable
\* attempt and retry_state), where it stands (pc), the sleeps and attempts
\* it has made so far (log), and what it returned (result).
\*   pc = "idle"      not invoked
\*   pc = "sleep"     at tokio::time::sleep(backoff).await
\*   pc = "attempt"   at execute_single_attempt(..).await
\*   pc = "done"      returned;  pc = "panicked"  unwound by a panic
IdleRun ==
    [pc |-> "idle", task |-> None, attempt |-> 0,
     retry_state |-> [attempts |-> 0, failure_pattern |-> <<>>],
     log |-> <<>>, result |-> None]

\* the head of `for attempt in 1..=max_attempts`, entered after `attempt`:
\* the next iteration up to its first await, or the return after the loop
NextIteration(policy, run) ==
    IF run.attempt >= policy.max_attempts
    THEN [run EXCEPT !.pc = "done",
                     !.result = [ok |-> FALSE,
                                 error |-> MaxAttemptsExceeded(policy.max_attempts)]]
    ELSE [run EXCEPT !.attempt = @ + 1,
                     !.retry_state.attempts = run.attempt + 1,
                     !.pc = IF run.attempt + 1 > 1 THEN "sleep" ELSE "attempt"]

\* execute_task(agent, task) up to its first await
BeginRun(policy, task) == NextIteration(policy, [IdleRun EXCEPT !.task = Some(task)])

\* faulty variant of the sleep: the backoff of the attempt about to be made
\* instead of that of the attempt before
SleepRun_off_by_one(policy, run) ==
    LET backoff == calculate_backoff(policy, run.attempt)
    IN IF backoff.ok
       THEN [run EXCEPT !.pc = "attempt",
                        !.log = Append(@, <<"sleep", backoff.secs>>)]
       ELSE [run EXCEPT !.pc = "panicked"]

\* the sleep: calculate_backoff(attempt - 1), then tokio::time::sleep
SleepRun(policy, run) ==
    LET backoff == calculate_backoff(policy, run.attempt - 1)
    IN IF backoff.ok
       THEN [run EXCEPT !.pc = "attempt",
                        !.log = Append(@, <<"sleep", backoff.secs>>)]
       ELSE [run EXCEPT !.pc = "panicked"]

\* the attempt and the match on its result, up to the next await or return;
\* adapt_strategy_for_failures only writes to the trace log
AttemptRun(policy, run) ==
    LET task == Unwrap(run.task)
        r == execute_single_attempt(task, run.attempt)
    IN IF r.ok
       THEN [run EXCEPT
               !.pc = "done",
               !.log = Append(@, <<"attempt", run.attempt, "Ok">>),
               !.result = [ok |-> TRUE,
                           value |-> [success |-> TRUE,
                                      output |-> <<task.title, run.attempt>>,
                                      error |-> None,
                                      duration |-> SumSecs(run.log),
                                      attempt_number |-> run.attempt]]]
       ELSE LET failed ==
                    [run EXCEPT
                       !.log = Append(@, <<"attempt", run.attempt, r.error>>),
                       !.retry_state.failure_pattern = Append(@, r.error)]
            IN IF ~should_retry(policy, r.error)
               THEN [failed EXCEPT !.pc = "done",
                                   !.result = [ok |-> FALSE,
                                               error |-> NonRetryable(r.error)]]
               ELSE IF run.attempt = policy.max_attempts
               THEN [failed EXCEPT !.pc = "done",
                                   !.result = [ok |-> FALSE,
                                               error |-> MaxAttemptsExceeded(run.attempt)]]
               ELSE NextIteration(policy, failed)

\* one step of an invocation that has not returned
StepRun(policy, run) ==
    IF run.pc = "sleep" THEN SleepRun(policy, run) ELSE AttemptRun(policy, run)

\* execute_task(agent, task) run from its call to its return, nothing else
\* running in between
RECURSIVE FinishRun(_, _)
FinishRun(policy, run) ==
    IF run.pc \in {"done", "panicked"} THEN run
    ELSE FinishRun(policy, StepRun(policy, run))

execute_task(policy, task) == FinishRun(policy, BeginRun(policy, task))

(* ------------------ the rule-based activity classifier ---------------- *)
\* dfcoder_baml::ActivityType and EmotionalState
ActivityType ==
    {"Scaffolding", "Implementing", "Debugging", "Testing", "Researching",
     "Waiting", "Stuck", "Idle"}
EmotionalState == {"Confident", "Focused", "Cautious", "Frustrated", "Desperate"}

\* whether the text holds one of the keywords
ContainsAny(text, keywords) == \E kw \in keywords : contains(text, kw)

\* faulty variant of ClassifyPrimary: the rule for "stuck" is tried before
\* the rule for tests
ClassifyPrimary_stuck_first(t) ==
    IF ContainsAny(t, {"error", "failed", "exception"})
    THEN IF ContainsAny(t, {"fixing", "debug"}) THEN "Debugging" ELSE "Stuck"
    ELSE IF ContainsAny(t, {"stuck", "confused", "help"}) THEN "Stuck"
    ELSE IF ContainsAny(t, {"test", "spec", "assert"}) THEN "Testing"
    ELSE IF ContainsAny(t, {"mkdir", "cargo init", "setup"}) THEN "Scaffolding"
    ELSE IF ContainsAny(t, {"implementing", "writing", "adding"}) THEN "Implementing"
    ELSE IF ContainsAny(t, {"reading", "docs", "researching"}) THEN "Researching"
    ELSE IF ContainsAny(t, {"waiting", "pending"}) THEN "Waiting"
    ELSE "Implementing"

\* the activity of a lower-cased text: the keyword hierarchy
ClassifyPrimary(t) ==
    IF ContainsAny(t, {"error", "failed", "exception"})
    THEN IF ContainsAny(t, {"fixing", "debug"}) THEN "Debugging" ELSE "Stuck"
    ELSE IF ContainsAny(t, {"test", "spec", "assert"}) THEN "Testing"
    ELSE IF ContainsAny(t, {"mkdir", "cargo init", "setup"}) THEN "Scaffolding"
    ELSE IF ContainsAny(t, {"implementing", "writing", "adding"}) THEN "Implementing"
    ELSE IF ContainsAny(t, {"reading", "docs", "researching"}) THEN "Researching"
    ELSE IF ContainsAny(t, {"waiting", "pending"}) THEN "Waiting"
    ELSE IF ContainsAny(t, {"stuck", "confused", "help"}) THEN "Stuck"
    ELSE "Implementing"

\* confidence (in hundredths) and emotional state of a lower-cased text
ClassifyConfidence(t) ==
    IF contains(t, "stuck") /\ ContainsAny(t, {"confused", "help"})
    THEN [confidence |-> 10, emotional_state |-> "Desperate"]
    ELSE IF ContainsAny(t, {"error", "failed"}) /\ contains(t, "stuck")
    THEN [confidence |-> 20, emotional_state |-> "Frustrated"]
    ELSE IF ContainsAny(t, {"error", "failed"})
    THEN [confidence |-> 40, emotional_state |-> "Frustrated"]
    ELSE IF ContainsAny(t, {"trying", "attempting"})
    THEN [confidence |-> 60, emotional_state |-> "Cautious"]
    ELSE IF ContainsAny(t, {"completed", "success", "done"})
    THEN [confidence |-> 90, emotional_state |-> "Confident"]
    ELSE [confidence |-> 70, emotional_state |-> "Focused"]

\* faulty variant of ClassifyNeedsHelp: any low confidence asks for help
ClassifyNeedsHelp_low_confidence(primary, ce) ==
    primary = "Stuck" \/ ce.confidence <= 40

\* needs_help of a classification
ClassifyNeedsHelp(primary, ce) ==
    primary = "Stuck" \/ (ce.confidence < 30 /\ ce.emotional_state = "Desperate")

\* dfcoder_baml::classify_activity(text) -> ActivityClass; the estimated
\* completion is five minutes
classify_activity(text) ==
    LET t == to_lowercase(text)
        primary == ClassifyPrimary(t)
        ce == ClassifyConfidence(t)
    IN [primary |-> primary,
        confidence |-> ce.confidence,
        needs_help |-> ClassifyNeedsHelp(primary, ce),
        emotional_state |-> ce.emotional_state,
        estimated_completion |-> Some(300)]

(* --------------------- supervision.rs: pure functions ----------------- *)
\* SupervisionAction values
ProvideGuidance(text) == <<"ProvideGuidance", text>>
ReassignTask(role) == <<"ReassignTask", role>>

\* one SupervisionOption (the icon is decoration and left out)
SupervisionOption(id, text, action, estimated_time) ==
    [id |-> id, text |-> text, action |-> action, estimated_time |-> estimated_time]

\* the options generate_dialogue_options pushes for the activity; each
\* push takes the next option id
ActivityOptions(activity, recent_output) ==
    IF activity.primary = "Stuck"
    THEN << [text |-> "Provide step-by-step guidance",
             action |-> ProvideGuidance("stuck script"), estimated_time |-> 300],
            [text |-> "Break down the task",
             action |-> <<"BreakDownTask">>, estimated_time |-> 180] >>
    ELSE IF activity.primary = "Debugging"
    THEN IF contains(recent_output, "error")
         THEN << [text |-> "Help analyze the error",
                  action |-> ProvideGuidance("error script"), estimated_time |-> 240] >>
         ELSE << >>
    ELSE << [text |-> "Request more context",
             action |-> <<"RequestMoreInfo">>, estimated_time |-> 120] >>

\* the option pushed for the emotional state
EmotionOptions(activity) ==
    IF activity.emotional_state = "Desperate"
    THEN << [text |-> "Take over the task",
             action |-> <<"TakeOver">>, estimated_time |-> 600] >>
    ELSE IF activity.emotional_state = "Frustrated"
    THEN << [text |-> "Reassign to different role",
             action |-> ReassignTask("Debugger"), estimated_time |-> 60] >>
    ELSE << >>

\* the two options always pushed last
StandardOptions ==
    << [text |-> "Let agent continue for now",
        action |-> <<"IgnoreForNow">>, estimated_time |-> 0],
       [text |-> "Escalate to human supervisor",
        action |-> <<"EscalateToHuman">>, estimated_time |-> 900] >>

\* faulty variant of NumberOptions: option_id is not advanced after the
\* first push
NumberOptions_first_id_repeated(pushed) ==
    [i \in 1..Len(pushed) |->
        SupervisionOption(IF i = 1 THEN 1 ELSE i - 1,
                          pushed[i].text, pushed[i].action, pushed[i].estimated_time)]

\* option_id starts at 1 and is advanced after every push
NumberOptions(pushed) ==
    [i \in 1..Len(pushed) |->
        SupervisionOption(i, pushed[i].text, pushed[i].action, pushed[i].estimated_time)]

\* generate_dialogue_options(_agent, activity, recent_output)
generate_dialogue_options(agent, activity, recent_output) ==
    NumberOptions(ActivityOptions(activity, recent_output)
                  \o EmotionOptions(activity) \o StandardOptions)

\* faulty variant of determine_urgency: Medium is given up to a confidence
\* of 0.7
determine_urgency_medium_up_to_70(activity) ==
    IF activity.emotional_state = "Desperate" THEN "Critical"
    ELSE IF activity.emotional_state = "Frustrated" THEN "High"
    ELSE IF activity.confidence < 40 /\ activity.primary = "Stuck" THEN "High"
    ELSE IF activity.confidence <= 70 THEN "Medium"
    ELSE "Low"

\* faulty variant of determine_urgency: the two confidence arms swapped
determine_urgency_arms_swapped(activity) ==
    IF activity.emotional_state = "Desperate" THEN "Critical"
    ELSE IF activity.emotional_state = "Frustrated" THEN "High"
    ELSE IF activity.confidence <= 30 THEN "Medium"
    ELSE IF activity.confidence < 40 /\ activity.primary = "Stuck" THEN "High"
    ELSE "Low"

\* determine_urgency(activity); the confidence is in hundredths
determine_urgency(activity) ==
    IF activity.emotional_state = "Desperate" THEN "Critical"
    ELSE IF activity.emotional_state = "Frustrated" THEN "High"
    ELSE IF activity.confidence < 40 /\ activity.primary = "Stuck" THEN "High"
    ELSE IF activity.confidence <= 30 THEN "Medium"
    ELSE "Low"

\* the timeout of every request the system builds
RequestTimeout == 30

\* SupervisionSystem::generate_supervision_request(agent, activity,
\* recent_output) at time now; the context is the formatted summary
generate_supervision_request(agent, activity, recent_output, now) ==
    [agent_id |-> agent.id,
     context |-> <<"needs supervision", agent.id, agent.role, agent.current_task,
                   activity.primary, activity.emotional_state, activity.confidence,
                   recent_output>>,
     options |-> generate_dialogue_options(agent, activity, recent_output),
     timeout |-> RequestTimeout,
     urgency |-> determine_urgency(activity),
     created_at |-> now]

\* SupervisionSystem::generate_supervision_dialogue(agent, activity,
\* recent_output) at time now -> Option<SupervisionRequest>
generate_supervision_dialogue(agent, activity, recent_output, now) ==
    IF activity.needs_help
    THEN Some([agent_id |-> agent.id,
               context |-> <<"seems to need help", agent.id, agent.role,
                             activity.primary, activity.emotional_state,
                             activity.confidence, recent_output>>,
               options |-> generate_dialogue_options(agent, activity, recent_output),
               timeout |-> RequestTimeout,
               urgency |-> determine_urgency(activity),
               created_at |-> now])
    ELSE None

\* one SupervisionEvent; its timestamp, which nothing reads, is left out
SupervisionEvent(agent_id, event_type, context, timestamp, resolution) ==
    [agent_id |-> agent_id, event_type |-> event_type, context |-> context,
     resolution |-> resolution]

(* ------------------- coordination.rs: WorkshopManager ----------------- *)
VARIABLES
    max_concurrent,   \* HashMap<AgentRole, usize>
    active_agents,    \* HashMap<AgentRole, Vec<AgentId>>
    agents,           \* HashMap<AgentId, Agent>
    task_queue,       \* VecDeque<Task>
    completed_tasks,  \* Vec<TaskId>
    metrics,          \* WorkshopMetrics
    agent_expertise,  \* HashMap<AgentId, AgentExpertise>
    created,          \* task ids already issued by Task::new (Uuid::new_v4)
    last,             \* the last call made on the manager and what it returned
    retry_executor,   \* RetryExecutor { policy }
    runs,             \* the execute_task invocations in progress: their locals
    backoff_call,     \* the last calculate_backoff call and what it returned
    active_requests,      \* SupervisionSystem: HashMap<AgentId, SupervisionRequest>
    supervision_history,  \* SupervisionSystem: Vec<SupervisionEvent>
    auto_supervision,     \* SupervisionSystem: bool
    clock                 \* what Instant::now() returns, in seconds

\* the retry executor, its invocations and its policy's calls
retry_vars == <<retry_executor, runs, backoff_call>>

\* the supervision system and the clock it reads
supervision_vars == <<active_requests, supervision_history, auto_supervision, clock>>

vars == <<max_concurrent, active_agents, agents, task_queue, completed_tasks,
          metrics, agent_expertise, created, last, retry_vars, supervision_vars>>

\* a HashMap is a function whose DOMAIN is its key set
MapInsert(m, k, v) == [x \in DOMAIN m \cup {k} |-> IF x = k THEN v ELSE m[x]]
EmptyMap == [x \in {} |-> None]

\* WorkshopMetrics::default()
WorkshopMetricsDefault ==
    [total_tasks_processed |-> 0, tasks_completed |-> 0, tasks_failed |-> 0,
     tasks_retried |-> 0, agent_utilization |-> EmptyMap, queue_length |-> 0,
     bottleneck_role |-> None]

\* WorkshopManager::new(): the default capacity of each role
DefaultCapacity(role) ==
    CASE role = "Scaffolder" -> 1
      [] role = "Implementer" -> 3
      [] role = "Debugger" -> 2
      [] role = "Tester" -> 2

\* active_agents.get(&role).map(|v| v.len()).unwrap_or(0)
ActiveOf(active, role) == IF role \in DOMAIN active THEN active[role] ELSE <<>>

\* faulty variant of can_assign: never compares the active count with the
\* capacity
can_assign_always(role) == TRUE

\* WorkshopManager::can_assign(role)
can_assign(role) ==
    LET active == Len(ActiveOf(active_agents, role))
        max == IF role \in DOMAIN max_concurrent THEN max_concurrent[role] ELSE 1
    IN active < max

\* faulty variant of find_available_agent: the status of the agent is not
\* looked at
AvailableAgents_any_status(role) ==
    {a \in DOMAIN agents : agents[a].role = role}

\* WorkshopManager::find_available_agent(role): agents.values().find(..) may
\* yield any Idle agent of the role; this is the set it chooses from
AvailableAgents(role) ==
    {a \in DOMAIN agents : agents[a].role = role /\ agents[a].status = "Idle"}

\* the closure of find_assignable_task_index applied to one queued task
Assignable(task) ==
    /\ dependencies_satisfied(task, completed_tasks)
    /\ can_assign(task.required_role)
    /\ AvailableAgents(task.required_role) # {}

\* faulty variant of find_assignable_task_index: looks at the front of the
\* queue only, instead of searching the queue with position()
find_assignable_task_index_front_only ==
    IF task_queue # <<>> /\ Assignable(task_queue[1]) THEN 1 ELSE 0

\* WorkshopManager::find_assignable_task_index(): 0 stands for None
find_assignable_task_index ==
    LET hits == {i \in 1..Len(task_queue) : Assignable(task_queue[i])}
    IN IF hits = {} THEN 0 ELSE CHOOSE i \in hits : \A j \in hits : i <= j

\* WorkshopManager::estimate_task_complexity(task)
estimate_task_complexity(task) ==
    LET description == to_lowercase(task.description)
        title == to_lowercase(task.title)
    IN IF contains(description, "fix") \/ contains(description, "bug")
          \/ TextLen(title) < 20
       THEN "Simple"
       ELSE IF contains(description, "implement") \/ contains(description, "feature")
       THEN IF contains(description, "complex") \/ contains(description, "integration")
            THEN "Complex"
            ELSE "Medium"
       ELSE IF contains(description, "architecture") \/ contains(description, "design")
       THEN "Expert"
       ELSE "Medium"

\* WorkshopManager::categorize_task(task)
categorize_task(task) ==
    LET description == to_lowercase(task.description)
    IN IF contains(description, "test") \/ contains(description, "spec")
       THEN "testing"
       ELSE IF contains(description, "debug") \/ contains(description, "fix")
       THEN "debugging"
       ELSE IF contains(description, "setup") \/ contains(description, "scaffold")
       THEN "scaffolding"
       ELSE IF contains(description, "implement") \/ contains(description, "feature")
       THEN "implementation"
       ELSE "general"

\* the comparator of prioritize_task_queue: TRUE when a sorts strictly before b
TaskBefore(a, b) ==
    LET pa == PriorityRank(a.context.priority)
        pb == PriorityRank(b.context.priority)
    IN \/ pb < pa
       \/ /\ pa = pb
          /\ ComplexityRank(estimate_task_complexity(a))
                < ComplexityRank(estimate_task_complexity(b))

\* slice::sort_by is stable: insert each element after its equals
RECURSIVE SortedInsert(_, _)
SortedInsert(sorted, x) ==
    IF sorted = <<>> THEN <<x>>
    ELSE IF TaskBefore(x, Head(sorted)) THEN <<x>> \o sorted
    ELSE <<Head(sorted)>> \o SortedInsert(Tail(sorted), x)

RECURSIVE StableSort(_)
StableSort(s) ==
    IF s = <<>> THEN <<>>
    ELSE SortedInsert(StableSort(SubSeq(s, 1, Len(s) - 1)), s[Len(s)])

\* faulty variant of prioritize_task_queue: the queue is left as it stands
prioritize_task_queue_unsorted == task_queue

\* WorkshopManager::prioritize_task_queue(): the queue it leaves behind
prioritize_task_queue == StableSort(task_queue)

\* WorkshopManager::calculate_agent_score(agent, task), in units of 1/10000;
\* rates are kept in thousandths and completion times in seconds
calculate_agent_score(agent, task) ==
    LET base == 5000
        exp_part ==
            IF agent.id \in DOMAIN agent_expertise
            THEN LET exp == agent_expertise[agent.id]
                     task_type == categorize_task(task)
                     complexity == estimate_task_complexity(task)
                     rate_part ==
                         IF task_type \in DOMAIN exp.task_success_rates
                         THEN exp.task_success_rates[task_type] * 3
                         ELSE 0
                     time_part ==
                         IF complexity \in DOMAIN exp.completion_times
                         THEN (2000 * 3600) \div (exp.completion_times[complexity] + 3600)
                         ELSE 0
                     total_part ==
                         IF exp.total_tasks * 100 < 2000
                         THEN exp.total_tasks * 100 ELSE 2000
                 IN rate_part + time_part + total_part
            ELSE 0
    IN base + exp_part - agent.metrics.tasks_completed * 100

\* WorkshopManager::find_best_agent_for_task(task): the agents the scan may
\* return (it keeps the first agent of the highest score, in HashMap order,
\* provided that score exceeds the initial best_score of -1.0); {} is None
find_best_agent_for_task(task) ==
    LET available_agents ==
            {a \in DOMAIN agents :
                /\ agents[a].role = task.required_role
                /\ agents[a].status = "Idle"
                /\ can_assign(agents[a].role)}
        score(a) == calculate_agent_score(agents[a], task)
    IN {a \in available_agents :
            /\ score(a) > -10000
            /\ \A b \in available_agents : score(b) <= score(a)}

\* update_metrics, first loop: the utilization of every role of max_concurrent
Utilization(active, maxc, old) ==
    [role \in DOMAIN old \cup DOMAIN maxc |->
        IF role \in DOMAIN maxc
        THEN IF maxc[role] > 0
             THEN Ratio(Len(ActiveOf(active, role)), maxc[role])
             ELSE Ratio(0, 1)
        ELSE old[role]]

\* update_metrics, max_by over the utilization map: iteration order is
\* arbitrary, so any role of maximal utilization may come out
BottleneckChoices(util) ==
    {r \in DOMAIN util : \A q \in DOMAIN util : RatioLeq(util[q], util[r])}

\* WorkshopManager::update_metrics() on the given state, bottleneck b chosen
update_metrics(m, active, maxc, queue, b) ==
    [m EXCEPT !.agent_utilization = Utilization(active, maxc, m.agent_utilization),
              !.bottleneck_role = b,
              !.queue_length = Len(queue)]

\* the bottleneck values update_metrics may store
BottleneckOptions(m, active, maxc) ==
    LET util == Utilization(active, maxc, m.agent_utilization)
    IN IF DOMAIN util = {} THEN {None} ELSE {Some(r) : r \in BottleneckChoices(util)}

(* ------------------------------- inputs ------------------------------- *)
\* the tasks fed in: a quick fix (Simple), a design task with a long
\* title (Expert), and the design task at High priority
TaskKinds ==
    {[priority |-> "Normal", title |-> <<"Fix", "bug">>,
      description |-> <<"Bugfix">>],
     [priority |-> "Normal", title |-> <<"Design", "the", "architecture">>,
      description |-> <<"Design", "architecture">>],
     [priority |-> "High", title |-> <<"Design", "the", "architecture">>,
      description |-> <<"Design", "architecture">>]}

\* Task::new draws a fresh id (Uuid::new_v4): ids are issued in order
NextTaskId(issued) == <<"task", Cardinality(issued) + 1>>

\* dependency lists: none, or the id of one task created earlier
InputDependencies(id) == {<<>>} \cup {<<d>> : d \in {x \in TaskIds : x[2] < id[2]}}

\* the role a task id is created for: the first task is a Scaffolder task
InputTaskRoles(id) == IF id[2] = 1 THEN {"Scaffolder"} ELSE InputRoles

\* the tasks passed to queue_task
InputTasks(id) ==
    {TaskNew(id, k.title, k.description, role, k.priority, deps) :
        k \in TaskKinds, role \in InputTaskRoles(id), deps \in InputDependencies(id)}

\* the tasks passed straight to assign_task, which reads only id and role
DirectTasks(id) ==
    {TaskNew(id, <<"Fix", "bug">>, <<"Bugfix">>, role, "Normal", <<>>) :
        role \in InputRoles}

\* the role an agent id is created with: the first agent is a Scaffolder
InputAgentRoles(agent_id) ==
    IF agent_id[2] = 1 THEN {"Scaffolder"} ELSE InputRoles

\* the role whose capacity is reconfigured
CapacityRoles == {"Scaffolder"}

InputErrors == {"Test error"}

StuckThresholds == {0, 1}

\* what a call returned
Ok == <<"Ok">>
\* an error value; its payload repeats an argument of the call and is left out
Err(kind) == <<"Err", kind>>
\* an error value whose payload is kept
ErrWith(kind, payload) == <<"Err", kind, payload>>

\* the record of a call: its name, arguments and return value, and the
\* task handed to an agent by it (None when it assigned nothing)
CallA(op, args, ret, assigned) ==
    [op |-> op, args |-> args, ret |-> ret, assigned |-> assigned]
Call(op, args, ret) == CallA(op, args, ret, None)

\* the execute_task invocations that may be in progress at once
RunIds == 1..NumRuns

\* the backoff settings of the policies fed in: those of
\* RetryPolicy::default(), and a steeper policy with a low cap
BackoffSettings ==
    {[initial_backoff |-> 1, backoff_multiplier |-> 2, max_backoff |-> 30],
     [initial_backoff |-> 2, backoff_multiplier |-> 4, max_backoff |-> 4]}

\* the retry_on lists of the policies fed in: the default list, the empty
\* list, and the default list with Fatal added
RetryOnLists ==
    {RetryPolicyDefault.retry_on, {}, RetryPolicyDefault.retry_on \cup {"Fatal"}}

\* the policies a RetryExecutor is created with
Policies ==
    {[max_attempts |-> n, initial_backoff |-> b.initial_backoff,
      backoff_multiplier |-> b.backoff_multiplier, max_backoff |-> b.max_backoff,
      retry_on |-> r] : n \in 0..MaxAttempts, b \in BackoffSettings, r \in RetryOnLists}

\* the descriptions of the tasks handed to the retry executor: one that
\* fails nowhere, and those execute_single_attempt lets fail
RetryDescriptions ==
    {<<"Bugfix">>, <<"network">>, <<"rate">>, <<"fatal">>, <<"rate", "fatal">>}

\* the tasks handed to the retry executor, which reads title and description
RetryTasks ==
    {TaskNew(<<"task", 0>>, <<"Fix", "bug">>, d, "Implementer", "Normal", <<>>) :
        d \in RetryDescriptions}

(* -------------------------------- Init -------------------------------- *)
\* WorkshopManager::new()
Init ==
    /\ max_concurrent = [role \in AgentRole |-> DefaultCapacity(role)]
    /\ active_agents = EmptyMap
    /\ agents = EmptyMap
    /\ task_queue = <<>>
    /\ completed_tasks = <<>>
    /\ metrics = WorkshopMetricsDefault
    /\ agent_expertise = EmptyMap
    /\ created = {}
    /\ last = Call("new", <<>>, Ok)
    /\ retry_executor = [policy |-> RetryPolicyDefault]
    /\ runs = [i \in RunIds |-> IdleRun]
    /\ backoff_call = None
    /\ active_requests = EmptyMap
    /\ supervision_history = <<>>
    /\ auto_supervision = FALSE
    /\ clock = 0

(* ------------------------------- actions ------------------------------ *)
\* the body of WorkshopManager::register_agent(agent) for an agent record
\* with the given id and role and the fields Agent::new gives it
RegisterAgent(agent_id, role) ==
    /\ agents' = MapInsert(agents, agent_id, AgentNew(agent_id, role))
    /\ active_agents' = IF role \in DOMAIN active_agents
                        THEN active_agents
                        ELSE MapInsert(active_agents, role, <<>>)
    /\ last' = Call("register_agent", <<agent_id, role>>, Ok)
    /\ UNCHANGED <<max_concurrent, task_queue, completed_tasks, metrics,
                   agent_expertise, retry_vars, supervision_vars, created>>

\* WorkshopManager::register_agent(agent) with agent = Agent::new(role, _),
\* which draws a fresh id (Uuid::new_v4)
register_agent(agent_id, role) ==
    /\ agent_id \notin DOMAIN agents
    /\ RegisterAgent(agent_id, role)

\* WorkshopManager::set_capacity(role, capacity)
set_capacity(role, capacity) ==
    /\ max_concurrent' = MapInsert(max_concurrent, role, capacity)
    /\ last' = Call("set_capacity", <<role, capacity>>, Ok)
    /\ UNCHANGED <<active_agents, agents, task_queue, completed_tasks, metrics,
                   agent_expertise, retry_vars, supervision_vars, created>>

\* faulty variant of insert_pos: compares with <= instead of <, so a new
\* task goes before the queued tasks of its own priority
InsertPos_before_equal(queue, task) ==
    LET lower == {i \in 1..Len(queue) :
                    PriorityRank(queue[i].context.priority)
                        <= PriorityRank(task.context.priority)}
    IN IF lower = {} THEN Len(queue) + 1
       ELSE CHOOSE i \in lower : \A j \in lower : i <= j

\* queue_task: position(|t| t.priority < task.priority).unwrap_or(len)
InsertPos(queue, task) ==
    LET lower == {i \in 1..Len(queue) :
                    PriorityRank(queue[i].context.priority)
                        < PriorityRank(task.context.priority)}
    IN IF lower = {} THEN Len(queue) + 1
       ELSE CHOOSE i \in lower : \A j \in lower : i <= j

\* WorkshopManager::queue_task(task)
queue_task(task) ==
    /\ task.id = NextTaskId(created)
    /\ created' = created \cup {task.id}
    /\ task_queue' = InsertAt(task_queue, InsertPos(task_queue, task), task)
    /\ metrics' = [metrics EXCEPT !.queue_length = Len(task_queue')]
    /\ last' = Call("queue_task", <<task.id>>, Ok)
    /\ UNCHANGED <<max_concurrent, active_agents, agents, completed_tasks,
                   agent_expertise, retry_vars, supervision_vars>>

\* WorkshopManager::assign_task(task) from the point where
\* find_available_agent has returned agent_id; queue is self.task_queue then
AssignTo(task, agent_id, queue) ==
    /\ agents' = [agents EXCEPT
                    ![agent_id] = Agent_assign_task(@, task.id).agent]
    /\ active_agents' =
          MapInsert(active_agents, task.required_role,
                    Append(ActiveOf(active_agents, task.required_role), agent_id))
    /\ metrics' = [metrics EXCEPT !.queue_length = Len(queue)]

\* what try_assign_next_task returns for the agent and the task it assigned
TryAssignReturn(agent_id, task) == Some(<<agent_id, agent_id>>)

\* faulty variant of TakeTask: the front of the queue is taken out even when
\* no assignable task was found
TakeTask_front_when_none(queue, index) ==
    IF index = 0
    THEN IF queue = <<>> THEN queue ELSE Tail(queue)
    ELSE RemoveAt(queue, index)

\* try_assign_next_task: the queue after task_queue.remove(index), which
\* runs only inside `if let Some(index)`
TakeTask(queue, index) ==
    IF index = 0 THEN queue ELSE RemoveAt(queue, index)

\* WorkshopManager::try_assign_next_task()
try_assign_next_task ==
    LET index == find_assignable_task_index
    IN IF index = 0
       THEN /\ last' = Call("try_assign_next_task", <<>>, None)
            /\ task_queue' = TakeTask(task_queue, index)
            /\ UNCHANGED <<max_concurrent, active_agents, agents,
                           completed_tasks, metrics, agent_expertise, retry_vars, supervision_vars, created>>
       ELSE LET task == task_queue[index]
                queue == TakeTask(task_queue, index)
            IN \E agent_id \in AvailableAgents(task.required_role) :
                 /\ task_queue' = queue
                 /\ AssignTo(task, agent_id, queue)
                 /\ last' = CallA("try_assign_next_task", <<>>,
                                  TryAssignReturn(agent_id, task),
                                  Some(Task_assign_and_start(task, agent_id)))
                 /\ UNCHANGED <<max_concurrent, completed_tasks, agent_expertise, retry_vars, supervision_vars,
                                created>>

\* WorkshopManager::assign_by_priority()
assign_by_priority ==
    LET sorted == prioritize_task_queue
        hits == {i \in 1..Len(sorted) :
                    /\ dependencies_satisfied(sorted[i], completed_tasks)
                    /\ find_best_agent_for_task(sorted[i]) # {}}
    IN IF hits = {}
       THEN /\ task_queue' = sorted
            /\ last' = Call("assign_by_priority", <<>>, None)
            /\ UNCHANGED <<max_concurrent, active_agents, agents, completed_tasks,
                           metrics, agent_expertise, retry_vars, supervision_vars, created>>
       ELSE LET task_index == CHOOSE i \in hits : \A j \in hits : i <= j
                task == sorted[task_index]
                queue == RemoveAt(sorted, task_index)
            IN \E agent_id \in AvailableAgents(task.required_role) :
                 /\ task_queue' = queue
                 /\ AssignTo(task, agent_id, queue)
                 /\ last' = CallA("assign_by_priority", <<>>, Some(<<agent_id, task>>),
                                  Some(Task_assign_and_start(task, agent_id)))
                 /\ UNCHANGED <<max_concurrent, completed_tasks, agent_expertise, retry_vars, supervision_vars,
                                created>>

\* WorkshopManager::assign_task(task), called directly with a new task
assign_task(task) ==
    /\ task.id = NextTaskId(created)
    /\ created' = created \cup {task.id}
    /\ IF AvailableAgents(task.required_role) = {}
       THEN /\ last' = Call("assign_task", <<task.id>>,
                            Err("NoAvailableAgents"))
            /\ UNCHANGED <<active_agents, agents, metrics>>
       ELSE \E agent_id \in AvailableAgents(task.required_role) :
              /\ AssignTo(task, agent_id, task_queue)
              /\ last' = CallA("assign_task", <<task.id>>, <<"Ok", agent_id>>,
                               Some(Task_assign_and_start(task, agent_id)))
    /\ UNCHANGED <<max_concurrent, task_queue, completed_tasks, agent_expertise, retry_vars, supervision_vars>>

\* faulty variant of the retain() call: leaves the active list as it is
RemoveFromActive_skipped(active, role, agent_id) == active

\* complete_task / fail_task: active.retain(|id| id != &agent_id) on the
\* agent's role, when the role has an entry
RemoveFromActive(active, role, agent_id) ==
    IF role \in DOMAIN active
    THEN [active EXCEPT ![role] = Retain(@, agent_id)]
    ELSE active

\* faulty variant of the push: the completed task id is not recorded
TrackCompletion_skipped(completed, task_id) == completed

\* complete_task: completed_tasks.push(task_id)
TrackCompletion(completed, task_id) == Append(completed, task_id)

\* complete_task: the two counters it increments
CountCompleted(m) ==
    [m EXCEPT !.tasks_completed = @ + 1, !.total_tasks_processed = @ + 1]

\* faulty variant of the fail_task counters: total_tasks_processed is left out
CountFailed_without_total(m) == [m EXCEPT !.tasks_failed = @ + 1]

\* fail_task: the two counters it increments
CountFailed(m) ==
    [m EXCEPT !.tasks_failed = @ + 1, !.total_tasks_processed = @ + 1]

\* the task ids a caller passes for an agent: the task the agent holds, or
\* the agent's own id (the second component of what try_assign_next_task
\* returns), which is never the id of a task
PassedTaskIds(agent_id) ==
    {agent_id} \cup
    (IF agent_id \in DOMAIN agents /\ agents[agent_id].current_task # None
     THEN {Unwrap(agents[agent_id].current_task)}
     ELSE {})

\* WorkshopManager::complete_task(agent_id, task_id)
complete_task(agent_id, task_id) ==
    IF agent_id \notin DOMAIN agents
    THEN /\ last' = Call("complete_task", <<agent_id, task_id>>,
                         Err("AgentNotFound"))
         /\ UNCHANGED <<max_concurrent, active_agents, agents, task_queue,
                        completed_tasks, metrics, agent_expertise, retry_vars, supervision_vars, created>>
    ELSE LET r == Agent_complete_task(agents[agent_id])
         IN IF ~r.ok
            THEN /\ last' = Call("complete_task", <<agent_id, task_id>>,
                         Err("TaskNotFound: no task assigned"))
                 /\ UNCHANGED <<max_concurrent, active_agents, agents, task_queue,
                                completed_tasks, metrics, agent_expertise, retry_vars, supervision_vars, created>>
            ELSE IF Unwrap(r.task_id) # task_id
            THEN \* the agent has already been changed when the ids are compared
                 /\ agents' = [agents EXCEPT ![agent_id] = r.agent]
                 /\ last' = Call("complete_task", <<agent_id, task_id>>,
                         Err("TaskNotFound"))
                 /\ UNCHANGED <<max_concurrent, active_agents, task_queue,
                                completed_tasks, metrics, agent_expertise, retry_vars, supervision_vars, created>>
            ELSE /\ agents' = [agents EXCEPT ![agent_id] = r.agent]
                 /\ active_agents' =
                        RemoveFromActive(active_agents, r.agent.role, agent_id)
                 /\ completed_tasks' = TrackCompletion(completed_tasks, task_id)
                 /\ \E b \in BottleneckOptions(metrics, active_agents', max_concurrent) :
                        metrics' = update_metrics(CountCompleted(metrics), active_agents',
                                                  max_concurrent, task_queue, b)
                 /\ last' = Call("complete_task", <<agent_id, task_id>>, Ok)
                 /\ UNCHANGED <<max_concurrent, task_queue, agent_expertise, retry_vars, supervision_vars, created>>

\* WorkshopManager::fail_task(agent_id, task_id, error)
fail_task(agent_id, task_id, error) ==
    IF agent_id \notin DOMAIN agents
    THEN /\ last' = Call("fail_task", <<agent_id, task_id, error>>,
                         Err("AgentNotFound"))
         /\ UNCHANGED <<max_concurrent, active_agents, agents, task_queue,
                        completed_tasks, metrics, agent_expertise, retry_vars, supervision_vars, created>>
    ELSE LET r == Agent_fail_task(agents[agent_id], error)
         IN IF ~r.ok
            THEN /\ last' = Call("fail_task", <<agent_id, task_id, error>>,
                         Err("TaskNotFound: no task assigned"))
                 /\ UNCHANGED <<max_concurrent, active_agents, agents, task_queue,
                                completed_tasks, metrics, agent_expertise, retry_vars, supervision_vars, created>>
            ELSE IF Unwrap(r.task_id) # task_id
            THEN /\ agents' = [agents EXCEPT ![agent_id] = r.agent]
                 /\ last' = Call("fail_task", <<agent_id, task_id, error>>,
                         Err("TaskNotFound"))
                 /\ UNCHANGED <<max_concurrent, active_agents, task_queue,
                                completed_tasks, metrics, agent_expertise, retry_vars, supervision_vars, created>>
            ELSE /\ agents' = [agents EXCEPT ![agent_id] = r.agent]
                 /\ active_agents' =
                        RemoveFromActive(active_agents, r.agent.role, agent_id)
                 /\ \E b \in BottleneckOptions(metrics, active_agents', max_concurrent) :
                        metrics' = update_metrics(CountFailed(metrics), active_agents',
                                                  max_concurrent, task_queue, b)
                 /\ last' = Call("fail_task", <<agent_id, task_id, error>>, Ok)
                 /\ UNCHANGED <<max_concurrent, task_queue, completed_tasks,
                                agent_expertise, retry_vars, supervision_vars, created>>

\* WorkshopManager::check_for_stuck_agents(stuck_threshold); the returned
\* Vec is kept as the set of its elements (its order is HashMap order)
check_for_stuck_agents(stuck_threshold) ==
    LET stuck_agents ==
            {a \in DOMAIN agents : Agent_is_stuck(agents[a], stuck_threshold)}
    IN /\ agents' = [a \in DOMAIN agents |->
                        IF a \in stuck_agents
                        THEN Agent_request_help(agents[a])
                        ELSE agents[a]]
       /\ last' = Call("check_for_stuck_agents", <<stuck_threshold>>, stuck_agents)
       /\ UNCHANGED <<max_concurrent, active_agents, task_queue, completed_tasks,
                      metrics, agent_expertise, retry_vars, supervision_vars, created>>

\* the clock advances between calls: every Working agent has been without
\* activity for one unit longer (counted up to MaxTime)
Tick ==
    /\ \E a \in DOMAIN agents : agents[a].status = "Working" /\ agents[a].elapsed < MaxTime
    /\ agents' = [a \in DOMAIN agents |->
                    IF agents[a].status = "Working" /\ agents[a].elapsed < MaxTime
                    THEN [agents[a] EXCEPT !.elapsed = @ + 1]
                    ELSE agents[a]]
    /\ UNCHANGED <<max_concurrent, active_agents, task_queue, completed_tasks,
                   metrics, agent_expertise, retry_vars, supervision_vars, created, last>>

Next ==
    \/ \E agent_id \in AgentIds : \E role \in InputAgentRoles(agent_id) :
          register_agent(agent_id, role)
    \/ \E role \in CapacityRoles, capacity \in 0..MaxCapacity :
          set_capacity(role, capacity)
    \/ \E id \in TaskIds : \E task \in InputTasks(id) : queue_task(task)
    \/ try_assign_next_task
    \/ assign_by_priority
    \/ \E id \in TaskIds : \E task \in DirectTasks(id) : assign_task(task)
    \/ \E agent_id \in AgentIds : \E task_id \in PassedTaskIds(agent_id) :
          complete_task(agent_id, task_id)
    \/ \E agent_id \in AgentIds : \E task_id \in PassedTaskIds(agent_id) :
          \E error \in InputErrors : fail_task(agent_id, task_id, error)
    \/ \E stuck_threshold \in StuckThresholds : check_for_stuck_agents(stuck_threshold)
    \/ Tick

Spec == Init /\ [][Next]_vars

(* ------------------------- the retry executor ------------------------- *)
\* RetryExecutor::new(policy)
InitRetry ==
    /\ max_concurrent = [role \in AgentRole |-> DefaultCapacity(role)]
    /\ active_agents = EmptyMap
    /\ agents = EmptyMap
    /\ task_queue = <<>>
    /\ completed_tasks = <<>>
    /\ metrics = WorkshopMetricsDefault
    /\ agent_expertise = EmptyMap
    /\ created = {}
    /\ last = Call("new", <<>>, Ok)
    /\ retry_executor \in {[policy |-> p] : p \in Policies}
    /\ runs = [i \in RunIds |-> IdleRun]
    /\ backoff_call = None
    /\ active_requests = EmptyMap
    /\ supervision_history = <<>>
    /\ auto_supervision = FALSE
    /\ clock = 0

\* the manager is not involved in what the retry executor does
ManagerUntouched ==
    UNCHANGED <<max_concurrent, active_agents, agents, task_queue, completed_tasks,
                metrics, agent_expertise, created, last, supervision_vars>>

\* faulty variant of Locals: the attempt counter and the failure pattern
\* are kept in one place for all invocations
Locals_shared(rs, i) ==
    [rs[i] EXCEPT !.attempt = rs[1].attempt, !.retry_state = rs[1].retry_state]

\* the locals of invocation i: `let mut retry_state` and the loop variable
\* belong to the invocation
Locals(rs, i) == rs[i]

\* invocation i is called: RetryExecutor::execute_task(agent, task)
execute_task_begin(i, task) ==
    /\ runs[i].pc = "idle"
    /\ runs' = [runs EXCEPT ![i] = BeginRun(retry_executor.policy, task)]
    /\ UNCHANGED <<retry_executor, backoff_call>>
    /\ ManagerUntouched

\* invocation i comes back from tokio::time::sleep(backoff).await
execute_task_sleep(i) ==
    /\ runs[i].pc = "sleep"
    /\ runs' = [runs EXCEPT ![i] = SleepRun(retry_executor.policy, Locals(runs, i))]
    /\ UNCHANGED <<retry_executor, backoff_call>>
    /\ ManagerUntouched

\* invocation i comes back from execute_single_attempt(..).await
execute_task_attempt(i) ==
    /\ runs[i].pc = "attempt"
    /\ runs' = [runs EXCEPT ![i] = AttemptRun(retry_executor.policy, Locals(runs, i))]
    /\ UNCHANGED <<retry_executor, backoff_call>>
    /\ ManagerUntouched

NextRetry ==
    \/ \E i \in RunIds, task \in RetryTasks : execute_task_begin(i, task)
    \/ \E i \in RunIds : execute_task_sleep(i)
    \/ \E i \in RunIds : execute_task_attempt(i)

SpecRetry == InitRetry /\ [][NextRetry]_vars

\* a call policy.calculate_backoff(attempt)
calculate_backoff_call(attempt) ==
    /\ backoff_call' = Some([attempt |-> attempt,
                             result |-> calculate_backoff(retry_executor.policy, attempt)])
    /\ UNCHANGED <<retry_executor, runs>>
    /\ ManagerUntouched

NextBackoff == \E attempt \in 0..MaxBackoffAttempt : calculate_backoff_call(attempt)

SpecBackoff == InitRetry /\ [][NextBackoff]_vars

\* the scheduler driven through its queue only: tasks enter by queue_task and
\* leave by try_assign_next_task (up to MaxQueued tasks are queued)
QueueTaskIds == {<<"task", i>> : i \in 1..MaxQueued}

NextQueue ==
    \/ \E agent_id \in AgentIds : \E role \in InputAgentRoles(agent_id) :
          register_agent(agent_id, role)
    \/ \E id \in QueueTaskIds : \E task \in InputTasks(id) : queue_task(task)
    \/ try_assign_next_task
    \/ \E agent_id \in AgentIds : \E task_id \in PassedTaskIds(agent_id) :
          complete_task(agent_id, task_id)

SpecQueue == Init /\ [][NextQueue]_vars

(* ------------------------ execution with retry ------------------------ *)
\* AgentExpertise::default(); last_updated is an Instant nothing reads
AgentExpertiseDefault ==
    [task_success_rates |-> EmptyMap, completion_times |-> EmptyMap,
     total_tasks |-> 0, specialization_score |-> 0]

RECURSIVE SumValues(_, _)
\* rates.iter().sum() over the keys S of map f
SumValues(f, S) ==
    IF S = {} THEN 0
    ELSE LET k == CHOOSE x \in S : TRUE IN f[k] + SumValues(f, S \ {k})

\* f32::sqrt on a variance given in millionths, result in thousandths
\* (rounded down)
ISqrt(n) == CHOOSE r \in 0..1000 : r * r <= n /\ (r + 1) * (r + 1) > n

\* the specialization score update_agent_expertise derives from the rates
\* (thousandths): the standard deviation of the rates, at most 1.0
SpecializationScore(rates) ==
    IF DOMAIN rates = {} THEN 0
    ELSE LET n == Cardinality(DOMAIN rates)
             avg_rate == SumValues(rates, DOMAIN rates) \div n
             squares == [k \in DOMAIN rates |->
                            (rates[k] - avg_rate) * (rates[k] - avg_rate)]
             variance == SumValues(squares, DOMAIN rates) \div n
         IN Min(ISqrt(variance), 1000)

\* WorkshopManager::update_agent_expertise(agent_id, task, result): the
\* expertise map it leaves behind.  Rates are kept in thousandths and
\* completion times in whole seconds, both rounded down.
update_agent_expertise(expertise_map, agent_id, task, result) ==
    LET task_type == categorize_task(task)
        complexity == estimate_task_complexity(task)
        expertise == IF agent_id \in DOMAIN expertise_map
                     THEN expertise_map[agent_id] ELSE AgentExpertiseDefault
        current_rate == IF task_type \in DOMAIN expertise.task_success_rates
                        THEN expertise.task_success_rates[task_type] ELSE 500
        new_rate == IF result.success
                    THEN (current_rate * 9) \div 10 + 100
                    ELSE (current_rate * 9) \div 10
        rates == MapInsert(expertise.task_success_rates, task_type, new_rate)
        current_time == IF complexity \in DOMAIN expertise.completion_times
                        THEN expertise.completion_times[complexity] ELSE 3600
        new_time == (current_time * 8 + result.duration * 2) \div 10
        times == IF result.success
                 THEN MapInsert(expertise.completion_times, complexity, new_time)
                 ELSE expertise.completion_times
    IN MapInsert(expertise_map, agent_id,
                 [task_success_rates |-> rates,
                  completion_times |-> times,
                  total_tasks |-> expertise.total_tasks + 1,
                  specialization_score |-> SpecializationScore(rates)])

\* faulty variant of CountRetried: every attempt is counted as a retry
CountRetried_every_attempt(m, result) ==
    [m EXCEPT !.tasks_retried = @ + result.attempt_number]

\* execute_task_with_retry: self.metrics.tasks_retried += attempt_number - 1
CountRetried(m, result) ==
    [m EXCEPT !.tasks_retried = @ + result.attempt_number - 1]

\* the number of updates recorded for agent_id in the expertise map
ExpertiseTotal(expertise_map, agent_id) ==
    IF agent_id \in DOMAIN expertise_map THEN expertise_map[agent_id].total_tasks ELSE 0

\* WorkshopManager::execute_task_with_retry(agent_id, task).  The call
\* borrows the manager exclusively until it returns, so no other manager
\* call runs between its attempts; the run of the retry executor is
\* execute_task.  At most MaxExecutions updates are recorded per agent.
execute_task_with_retry(agent_id, task) ==
    /\ ExpertiseTotal(agent_expertise, agent_id) < MaxExecutions
    /\ IF agent_id \notin DOMAIN agents
       THEN /\ last' = Call("execute_task_with_retry", <<agent_id, task>>,
                            Err("AgentNotFound"))
            /\ UNCHANGED <<max_concurrent, active_agents, agents, task_queue,
                           completed_tasks, metrics, agent_expertise, retry_vars, supervision_vars, created>>
       ELSE LET run == execute_task(retry_executor.policy, task)
                result == run.result
            IN IF run.pc = "panicked"
               THEN /\ last' = Call("execute_task_with_retry", <<agent_id, task>>,
                                    <<"Panic">>)
                    /\ UNCHANGED <<max_concurrent, active_agents, agents, task_queue,
                                   completed_tasks, metrics, agent_expertise,
                                   retry_vars, supervision_vars, created>>
               ELSE IF ~result.ok
               THEN /\ last' = Call("execute_task_with_retry", <<agent_id, task>>,
                                    ErrWith("TaskNotFound",
                                            <<"Retry failed", result.error>>))
                    /\ UNCHANGED <<max_concurrent, active_agents, agents, task_queue,
                                   completed_tasks, metrics, agent_expertise,
                                   retry_vars, supervision_vars, created>>
               ELSE /\ metrics' = CountRetried(metrics, result.value)
                    /\ agent_expertise' =
                          update_agent_expertise(agent_expertise, agent_id, task,
                                                 result.value)
                    /\ last' = Call("execute_task_with_retry", <<agent_id, task>>,
                                    <<"Ok", result.value>>)
                    /\ UNCHANGED <<max_concurrent, active_agents, agents, task_queue,
                                   completed_tasks, retry_vars, supervision_vars, created>>

\* the scheduler with tasks executed through the retry executor
NextExec ==
    \/ \E agent_id \in AgentIds : \E role \in InputAgentRoles(agent_id) :
          register_agent(agent_id, role)
    \/ \E id \in TaskIds : \E task \in DirectTasks(id) : assign_task(task)
    \/ \E agent_id \in AgentIds : \E task_id \in PassedTaskIds(agent_id) :
          complete_task(agent_id, task_id)
    \/ \E agent_id \in AgentIds, task \in RetryTasks :
          execute_task_with_retry(agent_id, task)

SpecExec == Init /\ [][NextExec]_vars

(* ------------------- supervision.rs: SupervisionSystem ---------------- *)
\* HashMap::remove
MapRemove(m, k) == [x \in DOMAIN m \ {k} |-> m[x]]

\* the orders in which a HashMap may hand out the keys S
KeyOrders(S) ==
    {order \in [1..Cardinality(S) -> S] :
        \A i, j \in 1..Cardinality(S) : i # j => order[i] # order[j]}

\* the agents whose output is supervised
SupervisedAgents == {AgentNew(id, "Implementer") : id \in AgentIds}

\* the outputs handed to check_supervision_need
SupervisionOutputs ==
    {<<"Error", "stuck">>, <<"error", "debug">>,
     <<"failed", "debug", "stuck", "help">>, <<"stuck", "help", "test">>}

\* the option ids a supervisor may answer with
OptionIds == 1..MaxOptionId

\* the rest of the program is not involved in what the supervision system does
SchedulerUntouched ==
    UNCHANGED <<max_concurrent, active_agents, agents, task_queue, completed_tasks,
                metrics, agent_expertise, created, retry_vars>>

\* faulty variant of HasActiveRequest: the active request is not looked up
HasActiveRequest_never(active, agent_id) == FALSE

\* check_supervision_need: self.active_requests.contains_key(&agent.id)
HasActiveRequest(active, agent_id) == agent_id \in DOMAIN active

\* faulty variant of NeedsRequest: a low confidence is enough
NeedsRequest_low_confidence(activity_class) ==
    activity_class.needs_help \/ activity_class.confidence <= 40

\* check_supervision_need: `if activity_class.needs_help`
NeedsRequest(activity_class) == activity_class.needs_help

\* SupervisionSystem::check_supervision_need(agent, recent_output)
check_supervision_need(agent, recent_output) ==
    /\ IF HasActiveRequest(active_requests, agent.id)
       THEN /\ last' = Call("check_supervision_need", <<agent, recent_output>>,
                            <<"Ok", None>>)
            /\ UNCHANGED supervision_vars
       ELSE LET activity_class == classify_activity(recent_output)
                request == generate_supervision_request(agent, activity_class,
                                                        recent_output, clock)
            IN IF NeedsRequest(activity_class)
               THEN /\ Len(supervision_history) < MaxHistory
                    /\ active_requests' = MapInsert(active_requests, agent.id, request)
                    /\ supervision_history' =
                          Append(supervision_history,
                                 SupervisionEvent(agent.id, "RequestGenerated",
                                                  recent_output, clock, None))
                    /\ last' = Call("check_supervision_need", <<agent, recent_output>>,
                                    <<"Ok", Some(request)>>)
                    /\ UNCHANGED <<auto_supervision, clock>>
               ELSE /\ last' = Call("check_supervision_need", <<agent, recent_output>>,
                                    <<"Ok", None>>)
                    /\ UNCHANGED supervision_vars
    /\ SchedulerUntouched

\* the options of the request whose id is option_id, in list order
OptionsWithId(request, option_id) ==
    SelectSeq(request.options, LAMBDA o : o.id = option_id)

\* faulty variant of SelectedEvents: the selection is not recorded
SelectedEvents_none(agent_id, option, now) == <<>>

\* handle_supervision_response: the events pushed for the selected option
SelectedEvents(agent_id, option, now) ==
    << SupervisionEvent(agent_id, "OptionSelected",
                        <<"Selected option", option.id, option.text>>, now,
                        Some(option.action)) >>

\* SupervisionSystem::handle_supervision_response(agent_id, option_id); the
\* request is taken out of the map before the option is looked up
handle_supervision_response(agent_id, option_id) ==
    /\ IF agent_id \notin DOMAIN active_requests
       THEN /\ last' = Call("handle_supervision_response", <<agent_id, option_id>>,
                            Err("AgentNotFound"))
            /\ UNCHANGED supervision_vars
       ELSE LET request == active_requests[agent_id]
                found == OptionsWithId(request, option_id)
            IN IF found = <<>>
               THEN /\ active_requests' = MapRemove(active_requests, agent_id)
                    /\ last' = Call("handle_supervision_response",
                                    <<agent_id, option_id>>,
                                    ErrWith("InvalidOption", option_id))
                    /\ UNCHANGED <<supervision_history, auto_supervision, clock>>
               ELSE /\ Len(supervision_history) < MaxHistory
                    /\ active_requests' = MapRemove(active_requests, agent_id)
                    /\ supervision_history' =
                          supervision_history \o SelectedEvents(agent_id, found[1], clock)
                    /\ last' = Call("handle_supervision_response",
                                    <<agent_id, option_id>>, <<"Ok", found[1].action>>)
                    /\ UNCHANGED <<auto_supervision, clock>>
    /\ SchedulerUntouched

\* faulty variant of Expired: a request expires when its age reaches the timeout
Expired_at_timeout(request, now) == now - request.created_at >= request.timeout

\* cleanup_expired_requests: now.duration_since(created_at) > timeout
Expired(request, now) == now - request.created_at > request.timeout

\* SupervisionSystem::cleanup_expired_requests(); the expired agents are
\* collected in the iteration order of the HashMap.  The call record keeps
\* the time the call read.
cleanup_expired_requests ==
    LET now == clock
        expired == {a \in DOMAIN active_requests : Expired(active_requests[a], now)}
    IN /\ Len(supervision_history) + Cardinality(expired) <= MaxHistory
       /\ \E expired_agents \in KeyOrders(expired) :
             /\ active_requests' =
                   [a \in DOMAIN active_requests \ expired |-> active_requests[a]]
             /\ supervision_history' =
                   supervision_history \o
                   [i \in 1..Len(expired_agents) |->
                       SupervisionEvent(expired_agents[i], "Timeout",
                                        "Supervision request timed out", now, None)]
       /\ last' = Call("cleanup_expired_requests", <<now>>, Ok)
       /\ UNCHANGED <<auto_supervision, clock>>
       /\ SchedulerUntouched

\* faulty variant of SafeFirstOption: any first option is taken
SafeFirstOption_any(request) == request.options # <<>>

\* auto_resolve_requests: the first option exists and is ProvideGuidance(_)
\* or RequestMoreInfo
SafeFirstOption(request) ==
    /\ request.options # <<>>
    /\ request.options[1].action[1] \in {"ProvideGuidance", "RequestMoreInfo"}

\* SupervisionSystem::enable_auto_supervision()
enable_auto_supervision ==
    /\ auto_supervision' = TRUE
    /\ last' = Call("enable_auto_supervision", <<>>, Ok)
    /\ UNCHANGED <<active_requests, supervision_history, clock>>
    /\ SchedulerUntouched

\* SupervisionSystem::auto_resolve_requests(); the agent ids are visited in
\* the iteration order of the HashMap
auto_resolve_requests ==
    IF ~auto_supervision
    THEN /\ last' = Call("auto_resolve_requests", <<>>, <<"Ok", <<>>>>)
         /\ UNCHANGED supervision_vars
         /\ SchedulerUntouched
    ELSE \E agent_ids \in KeyOrders(DOMAIN active_requests) :
            LET resolved == SelectSeq(agent_ids,
                                      LAMBDA a : SafeFirstOption(active_requests[a]))
                first(a) == active_requests[a].options[1]
            IN /\ Len(supervision_history) + Len(resolved) <= MaxHistory
               /\ active_requests' =
                     [a \in DOMAIN active_requests \ Range(resolved) |-> active_requests[a]]
               /\ supervision_history' =
                     supervision_history \o
                     [i \in 1..Len(resolved) |->
                         SupervisionEvent(resolved[i], "AutoResolved",
                                          <<"Auto-selected", first(resolved[i]).text>>,
                                          clock, Some(first(resolved[i]).action))]
               /\ last' = Call("auto_resolve_requests", <<>>,
                               <<"Ok", [i \in 1..Len(resolved) |->
                                          <<resolved[i], first(resolved[i]).action>>]>>)
               /\ UNCHANGED <<auto_supervision, clock>>
               /\ SchedulerUntouched

\* time passes: Instant::now() advances
AdvanceClock ==
    /\ clock + ClockStep <= MaxClock
    /\ clock' = clock + ClockStep
    /\ UNCHANGED <<active_requests, supervision_history, auto_supervision, last>>
    /\ SchedulerUntouched

NextSupervision ==
    \/ \E agent \in SupervisedAgents, recent_output \in SupervisionOutputs :
          check_supervision_need(agent, recent_output)
    \/ \E agent_id \in AgentIds, option_id \in OptionIds :
          handle_supervision_response(agent_id, option_id)
    \/ cleanup_expired_requests
    \/ enable_auto_supervision
    \/ auto_resolve_requests
    \/ AdvanceClock

\* SupervisionSystem::new() and the operations on it
SpecSupervision == Init /\ [][NextSupervision]_vars

(* ---------------- supervision.rs: requests built directly ------------- *)
\* the confidences (hundredths) of the classifications handed in
ConfidenceLevels == {10, 30, 35, 40, 70}

\* the ActivityClass values handed to generate_supervision_dialogue
ActivityClasses ==
    [primary : ActivityType, confidence : ConfidenceLevels, needs_help : BOOLEAN,
     emotional_state : EmotionalState, estimated_completion : {None}]

\* the outputs handed in with them: with and without "error"
DialogueOutputs == {<<"error">>, <<"Error", "stuck">>}

\* a call SupervisionSystem::generate_supervision_dialogue(agent, activity,
\* recent_output)
generate_supervision_dialogue_call(agent, activity, recent_output) ==
    /\ last' = Call("generate_supervision_dialogue", <<agent, activity, recent_output>>,
                    generate_supervision_dialogue(agent, activity, recent_output, clock))
    /\ UNCHANGED supervision_vars
    /\ SchedulerUntouched

\* one call per behaviour: the function reads nothing but its arguments
\* and the clock
NextDialogue ==
    /\ last.op = "new"
    /\ \E agent \in SupervisedAgents, activity \in ActivityClasses,
          recent_output \in DialogueOutputs :
             generate_supervision_dialogue_call(agent, activity, recent_output)

SpecDialogue == Init /\ [][NextDialogue]_vars

(* ------------------------- classifier calls --------------------------- *)
\* the words the classified texts are made of: every keyword of the
\* classifier, and "Error" with a capital
ClassifierVocabulary ==
    <<"Error", "error", "failed", "exception", "fixing", "debug", "test", "spec",
      "assert", "mkdir", "cargo init", "setup", "implementing", "writing", "adding",
      "reading", "docs", "researching", "waiting", "pending", "stuck", "confused",
      "help", "trying", "attempting", "completed", "success", "done">>

\* the texts classified: up to MaxWords different words
ClassifierTexts ==
    UNION {{[i \in 1..n |-> ClassifierVocabulary[f[i]]] :
               f \in {g \in [1..n -> 1..Len(ClassifierVocabulary)] :
                         \A i, j \in 1..n : i < j => g[i] < g[j]}} :
           n \in 0..MaxWords}

\* a call dfcoder_baml::classify_activity(text)
classify_activity_call(text) ==
    /\ last' = Call("classify_activity", <<text>>, classify_activity(text))
    /\ UNCHANGED supervision_vars
    /\ SchedulerUntouched

\* one call per behaviour: the classifier keeps no state
NextClassifier ==
    /\ last.op = "new"
    /\ \E text \in ClassifierTexts : classify_activity_call(text)

SpecClassifier == Init /\ [][NextClassifier]_vars

(* ---------------------- requests for classified texts ---------------- *)
\* a new supervision system asked once about one agent, for every text of
\* the classifier's keywords
NextNeed ==
    /\ last.op = "new"
    /\ \E agent \in SupervisedAgents : \E text \in ClassifierTexts :
          check_supervision_need(agent, text)

SpecNeed == Init /\ [][NextNeed]_vars

(* ------------------------ agent records replaced ---------------------- *)
\* WorkshopManager::register_agent(agent) with a new record for an id that
\* is registered already: agents.insert() replaces the old record
register_agent_again(agent_id, role) ==
    /\ agent_id \in DOMAIN agents
    /\ RegisterAgent(agent_id, role)

\* the scheduler with callers that also register new records under ids in use
NextReplace ==
    \/ Next
    \/ \E agent_id \in AgentIds : \E role \in InputAgentRoles(agent_id) :
          register_agent_again(agent_id, role)

SpecReplace == Init /\ [][NextReplace]_vars

(* ------------------------- tasks through the queue -------------------- *)
\* the scheduler fed through its queue only: tasks enter by queue_task, are
\* assigned by try_assign_next_task or assign_by_priority, and end with
\* complete_task or fail_task
NextIntake ==
    \/ \E agent_id \in AgentIds : \E role \in InputAgentRoles(agent_id) :
          register_agent(agent_id, role)
    \/ \E id \in TaskIds : \E task \in InputTasks(id) : queue_task(task)
    \/ try_assign_next_task
    \/ assign_by_priority
    \/ \E agent_id \in AgentIds : \E task_id \in PassedTaskIds(agent_id) :
          complete_task(agent_id, task_id)
    \/ \E agent_id \in AgentIds : \E task_id \in PassedTaskIds(agent_id) :
          \E error \in InputErrors : fail_task(agent_id, task_id, error)

SpecIntake == Init /\ [][NextIntake]_vars

(* --------------------------- status snapshots ------------------------- *)
\* WorkshopManager::new(): the order in which the roles enter max_concurrent
RoleOrder == <<"Scaffolder", "Implementer", "Debugger", "Tester">>

\* active_agents.values().map(|v| v.len()).sum()
RECURSIVE SumLens(_, _)
SumLens(active, roles) ==
    IF roles = {} THEN 0
    ELSE LET r == CHOOSE x \in roles : TRUE
         IN Len(active[r]) + SumLens(active, roles \ {r})

\* the WorkshopStatus built by get_status from the updated metrics m
WorkshopStatus(m) ==
    [total_agents |-> Cardinality(DOMAIN agents),
     active_agents |-> SumLens(active_agents, DOMAIN active_agents),
     queue_length |-> Len(task_queue),
     capacity_per_role |-> max_concurrent,
     active_per_role |-> [r \in DOMAIN active_agents |-> Len(active_agents[r])],
     metrics |-> m]

\* WorkshopManager::get_status()
get_status ==
    /\ \E b \in BottleneckOptions(metrics, active_agents, max_concurrent) :
          /\ metrics' = update_metrics(metrics, active_agents, max_concurrent,
                                       task_queue, b)
          /\ last' = Call("get_status", <<>>, WorkshopStatus(metrics'))
    /\ UNCHANGED <<max_concurrent, active_agents, agents, task_queue,
                   completed_tasks, agent_expertise, retry_vars, supervision_vars,
                   created>>

\* a workshop whose status is read between registrations, capacity changes,
\* direct assignments, completions and failures
NextStatus ==
    \/ \E agent_id \in AgentIds : \E role \in InputAgentRoles(agent_id) :
          register_agent(agent_id, role)
    \/ \E role \in CapacityRoles, capacity \in 0..MaxCapacity :
          set_capacity(role, capacity)
    \/ \E id \in TaskIds : \E task \in DirectTasks(id) : assign_task(task)
    \/ \E agent_id \in AgentIds : \E task_id \in PassedTaskIds(agent_id) :
          complete_task(agent_id, task_id)
    \/ \E agent_id \in AgentIds : \E task_id \in PassedTaskIds(agent_id) :
          \E error \in InputErrors : fail_task(agent_id, task_id, error)
    \/ get_status

SpecStatus == Init /\ [][NextStatus]_vars

(* ============================== claims ================================ *)
\* the agents listed as active for a role, and those Working in that role
ActiveList(r) == ActiveOf(active_agents, r)
WorkingAgents(r) ==
    {a \in DOMAIN agents : agents[a].role = r /\ agents[a].status = "Working"}
IdleAgents(r) ==
    {a \in DOMAIN agents : agents[a].role = r /\ agents[a].status = "Idle"}
NoDuplicates(s) == Cardinality(Range(s)) = Len(s)

\* the manager's own state: everything but the record of the last call
SchedulerState ==
    <<max_concurrent, active_agents, agents, task_queue, completed_tasks,
      metrics, agent_expertise>>

\* a step that is a call of the named operation (Tick leaves last alone)
CallOf(op) == last' # last /\ last'.op = op

\* C1: in every reachable state, for every role r, the number of agent ids
\* in active[r] is at most cap[r].
C1_ActiveWithinCapacity ==
    \A r \in AgentRole : Len(ActiveList(r)) <= max_concurrent[r]

\* C2: in every reachable state, for every role r, active[r] holds exactly
\* the ids of the registered agents of role r that are Working, each once.
C2_ActiveIsWorkingSet ==
    \A r \in AgentRole :
        /\ Range(ActiveList(r)) = WorkingAgents(r)
        /\ NoDuplicates(ActiveList(r))

C4_ErrorLeavesStateUnchanged ==
    [][(/\ CallOf("complete_task") \/ CallOf("fail_task")
        /\ last'.ret[1] = "Err")
          => UNCHANGED SchedulerState]_vars

\* C5: when try_assign_next_task returns (a, t), a is the agent that just
\* became Working and t is the id of the task removed from the queue, which
\* is a's current task (so complete_task(a, t) succeeds).
C5_ReturnedPairIsAgentAndTask ==
    (last.op = "try_assign_next_task" /\ last.ret # None) =>
        LET a == Unwrap(last.ret)[1]
            t == Unwrap(last.ret)[2]
        IN /\ a \in DOMAIN agents
           /\ agents[a].status = "Working"
           /\ t = Unwrap(last.assigned).id
           /\ agents[a].current_task = Some(t)

\* the claims' reading of "assignable": all dependencies completed, the role
\* below its capacity, and an Idle agent of the role registered
DependenciesCompleted(task) ==
    Range(task.context.dependencies) \subseteq Range(completed_tasks)
AgentAvailable(r) ==
    /\ Len(ActiveList(r)) < max_concurrent[r]
    /\ IdleAgents(r) # {}
AssignableNow(task) ==
    /\ DependenciesCompleted(task)
    /\ AgentAvailable(task.required_role)
MinOf(S) == CHOOSE i \in S : \A j \in S : i <= j
QueuedIds(queue) == {queue[i].id : i \in 1..Len(queue)}

\* C6: whenever try_assign_next_task returns an assignment, the task it
\* took from the queue has every dependency id in the completed set; a
\* queued task with an uncompleted dependency is never assigned by it.
C6_AssignedDependenciesCompleted ==
    [][(CallOf("try_assign_next_task") /\ last'.ret # None) =>
          \E i \in 1..Len(task_queue) :
             /\ task_queue' = RemoveAt(task_queue, i)
             /\ Unwrap(last'.assigned).id = task_queue[i].id
             /\ \A d \in Range(task_queue[i].context.dependencies) :
                   d \in Range(completed_tasks')]_vars

\* C6 witness: try_assign_next_task has assigned a task that has a dependency.
C6_Witness ==
    /\ last.op = "try_assign_next_task"
    /\ last.assigned # None
    /\ Unwrap(last.assigned).context.dependencies # <<>>

\* C7: try_assign_next_task assigns the first task in queue order that is
\* assignable, to an Idle agent of its role, skipping earlier tasks that are
\* not assignable; it returns none only when no queued task is assignable.
C7_FirstAssignableTaskIsAssigned ==
    [][CallOf("try_assign_next_task") =>
          LET A == {i \in 1..Len(task_queue) : AssignableNow(task_queue[i])}
          IN IF A = {}
             THEN last'.ret = None
             ELSE LET task == task_queue[MinOf(A)]
                  IN /\ last'.ret # None
                     /\ task_queue' = RemoveAt(task_queue, MinOf(A))
                     /\ Unwrap(last'.assigned).id = task.id
                     /\ \E a \in IdleAgents(task.required_role) :
                           /\ agents'[a].status = "Working"
                           /\ agents'[a].current_task = Some(task.id)]_vars

\* C7 witness: try_assign_next_task has assigned a task while a task of
\* higher priority, which stood before it in the queue, stays queued.
C7_Witness ==
    /\ last.op = "try_assign_next_task"
    /\ last.assigned # None
    /\ task_queue # <<>>
    /\ PriorityRank(task_queue[1].context.priority)
          > PriorityRank(Unwrap(last.assigned).context.priority)

\* C8: (1) try_assign_next_task assigns a task of role r only while
\* active[r] is below cap[r], whatever Idle agents exist; (2) a successful
\* complete_task by an agent of role r, called while active[r] = cap[r],
\* leaves active[r] below cap[r] and the agent Idle; (3) the next
\* try_assign_next_task after a successful complete_task that left role r
\* below capacity assigns the first waiting role-r task whose dependencies
\* are completed (no earlier queued task being assignable) to an agent of
\* role r.
C8_CapacityGateAndRelease ==
    [][/\ (CallOf("try_assign_next_task") /\ last'.assigned # None) =>
             LET r == Unwrap(last'.assigned).required_role
             IN Len(ActiveList(r)) < max_concurrent[r]
       /\ (CallOf("complete_task") /\ last'.ret = Ok) =>
             LET a == last'.args[1]
                 r == agents[a].role
             IN Len(ActiveList(r)) = max_concurrent[r] =>
                   /\ Len(ActiveOf(active_agents', r)) < max_concurrent'[r]
                   /\ agents'[a].status = "Idle"
       /\ (last.op = "complete_task" /\ last.ret = Ok
             /\ CallOf("try_assign_next_task")) =>
             LET r == agents[last.args[1]].role
                 W == {i \in 1..Len(task_queue) :
                          /\ task_queue[i].required_role = r
                          /\ DependenciesCompleted(task_queue[i])}
             IN (/\ Len(ActiveList(r)) < max_concurrent[r]
                 /\ W # {}
                 /\ \A j \in 1..(MinOf(W) - 1) : ~AssignableNow(task_queue[j]))
                   => /\ last'.assigned # None
                      /\ Unwrap(last'.assigned).id = task_queue[MinOf(W)].id
                      /\ agents'[Unwrap(last'.ret)[1]].role = r
                      /\ agents[Unwrap(last'.ret)[1]].status = "Idle"]_vars

\* C8 witness: after a completed task, try_assign_next_task has assigned a
\* Scaffolder task; the role is at capacity again while another Scaffolder
\* is Idle.
C8_Witness ==
    /\ last.op = "try_assign_next_task"
    /\ last.assigned # None
    /\ Unwrap(last.assigned).required_role = "Scaffolder"
    /\ completed_tasks # <<>>
    /\ Len(ActiveList("Scaffolder")) = max_concurrent["Scaffolder"]
    /\ IdleAgents("Scaffolder") # {}

\* C9: (1) a queued task whose only dependency is uncompleted stays in the
\* queue in every step; (2) when complete_task has succeeded for task T1,
\* the next try_assign_next_task assigns the queued task T2 whose only
\* dependency is T1, provided an agent of its role is available and no
\* earlier queued task is assignable.
C9_DependentTaskWaitsThenRuns ==
    [][/\ \A i \in 1..Len(task_queue) :
             (/\ Len(task_queue[i].context.dependencies) = 1
              /\ task_queue[i].context.dependencies[1] \notin Range(completed_tasks))
                => task_queue[i].id \in QueuedIds(task_queue')
       /\ (last.op = "complete_task" /\ last.ret = Ok
             /\ CallOf("try_assign_next_task")) =>
             LET t1 == last.args[2]
                 D == {i \in 1..Len(task_queue) :
                          task_queue[i].context.dependencies = <<t1>>}
             IN (/\ D # {}
                 /\ AgentAvailable(task_queue[MinOf(D)].required_role)
                 /\ \A j \in 1..(MinOf(D) - 1) : ~AssignableNow(task_queue[j]))
                   => /\ last'.ret # None
                      /\ Unwrap(last'.assigned).id = task_queue[MinOf(D)].id
                      /\ task_queue[MinOf(D)].id \notin QueuedIds(task_queue')]_vars

\* C9 witness: try_assign_next_task has assigned a task whose only
\* dependency is the task completed last.
C9_Witness ==
    /\ last.op = "try_assign_next_task"
    /\ last.assigned # None
    /\ completed_tasks # <<>>
    /\ Unwrap(last.assigned).context.dependencies
          = <<completed_tasks[Len(completed_tasks)]>>

\* C10: a complete_task(a, t) call in which t is a's current task succeeds;
\* afterwards a is Idle with no current task, t is in the completed set,
\* a's tasks_completed and the workshop's tasks_completed and
\* total_tasks_processed are each one higher, a is not in active[role(a)],
\* and the queue and every other agent are unchanged.
C10_CompleteTaskEffect ==
    [][CallOf("complete_task") =>
          LET a == last'.args[1]
              t == last'.args[2]
          IN (a \in DOMAIN agents /\ agents[a].current_task = Some(t)) =>
                /\ last'.ret = Ok
                /\ agents'[a].status = "Idle"
                /\ agents'[a].current_task = None
                /\ t \in Range(completed_tasks')
                /\ agents'[a].metrics.tasks_completed
                      = agents[a].metrics.tasks_completed + 1
                /\ metrics'.tasks_completed = metrics.tasks_completed + 1
                /\ metrics'.total_tasks_processed = metrics.total_tasks_processed + 1
                /\ a \notin Range(ActiveOf(active_agents', agents[a].role))
                /\ task_queue' = task_queue
                /\ DOMAIN agents' = DOMAIN agents
                /\ \A b \in DOMAIN agents \ {a} : agents'[b] = agents[b]]_vars

\* C10 witness: complete_task has succeeded while another agent is
\* registered and a task is queued.
C10_Witness ==
    /\ last.op = "complete_task"
    /\ last.ret = Ok
    /\ Cardinality(DOMAIN agents) > 1
    /\ task_queue # <<>>
    /\ agents[last.args[1]].status = "Idle"

\* C11: a fail_task(a, t, error) call in which t is a's current task
\* succeeds; afterwards a has status Error, no current task and the passed
\* error as last_error, t is not in the completed set, a's tasks_failed and
\* the workshop's tasks_failed and total_tasks_processed are each one
\* higher, and a is not in active[role(a)].
C11_FailTaskEffect ==
    [][CallOf("fail_task") =>
          LET a == last'.args[1]
              t == last'.args[2]
              error == last'.args[3]
          IN (a \in DOMAIN agents /\ agents[a].current_task = Some(t)) =>
                /\ last'.ret = Ok
                /\ agents'[a].status = "Error"
                /\ agents'[a].current_task = None
                /\ agents'[a].metrics.last_error = Some(error)
                /\ t \notin Range(completed_tasks')
                /\ completed_tasks' = completed_tasks
                /\ agents'[a].metrics.tasks_failed
                      = agents[a].metrics.tasks_failed + 1
                /\ metrics'.tasks_failed = metrics.tasks_failed + 1
                /\ metrics'.total_tasks_processed = metrics.total_tasks_processed + 1
                /\ a \notin Range(ActiveOf(active_agents', agents[a].role))]_vars

\* C11 witness: fail_task has succeeded and left the agent in Error.
C11_Witness ==
    /\ last.op = "fail_task"
    /\ last.ret = Ok
    /\ agents[last.args[1]].status = "Error"
    /\ metrics.tasks_failed > 0

\* the queue is ordered by non-increasing priority, and tasks of equal
\* priority stand in the order in which they were queued (ids are issued in
\* the order of the queue_task calls)
QueueOrdered(queue) ==
    \A i, j \in 1..Len(queue) :
        i < j =>
           \/ PriorityRank(queue[i].context.priority)
                 > PriorityRank(queue[j].context.priority)
           \/ /\ queue[i].context.priority = queue[j].context.priority
              /\ queue[i].id[2] < queue[j].id[2]

\* the positions of the queued tasks of strictly lower priority than p
LowerPriority(queue, p) ==
    {i \in 1..Len(queue) :
        PriorityRank(queue[i].context.priority) < PriorityRank(p)}

\* C12: over queue_task and try_assign_next_task calls the queue stays
\* ordered by non-increasing priority with equal priorities in queueing
\* order; queue_task places the new task immediately before the first queued
\* task of strictly lower priority (at the end when there is none), and
\* try_assign_next_task removes one task and keeps the others in order.
C12_QueueOrder ==
    /\ [](QueueOrdered(task_queue))
    /\ [][/\ CallOf("queue_task") =>
               \E k \in 1..(Len(task_queue) + 1) :
                  /\ task_queue' = InsertAt(task_queue, k, task_queue'[k])
                  /\ task_queue'[k].id = last'.args[1]
                  /\ LET p == task_queue'[k].context.priority
                     IN IF LowerPriority(task_queue, p) = {}
                        THEN k = Len(task_queue) + 1
                        ELSE k = MinOf(LowerPriority(task_queue, p))
          /\ CallOf("try_assign_next_task") =>
               \/ task_queue' = task_queue
               \/ \E k \in 1..Len(task_queue) :
                     task_queue' = RemoveAt(task_queue, k)]_vars

\* C12 witness: try_assign_next_task has taken a task from the queue and two
\* tasks of equal priority are left in it.
C12_Witness ==
    /\ last.op = "try_assign_next_task"
    /\ last.assigned # None
    /\ Len(task_queue) = 2
    /\ task_queue[1].context.priority = task_queue[2].context.priority

\* whether task a comes strictly before task b under the order (priority
\* descending, then estimated complexity ascending)
StrictlyBefore(a, b) ==
    \/ PriorityRank(a.context.priority) > PriorityRank(b.context.priority)
    \/ /\ a.context.priority = b.context.priority
       /\ ComplexityRank(estimate_task_complexity(a))
             < ComplexityRank(estimate_task_complexity(b))

\* C13: when assign_by_priority returns task T, T was queued and assignable,
\* and no task that was assignable and has strictly higher priority, or
\* equal priority and strictly lower complexity, remains in the queue.
C13_AssignByPriorityTakesFirstInOrder ==
    [][(CallOf("assign_by_priority") /\ last'.ret # None) =>
          LET T == Unwrap(last'.ret)[2]
          IN /\ \E i \in 1..Len(task_queue) : task_queue[i] = T
             /\ AssignableNow(T)
             /\ T.id \notin QueuedIds(task_queue')
             /\ \A i \in 1..Len(task_queue') :
                   AssignableNow(task_queue'[i]) => ~StrictlyBefore(task_queue'[i], T)]_vars

\* C13 witness: assign_by_priority has returned a task that was queued
\* later than a task of the same role and priority but higher complexity,
\* which is still queued.
C13_Witness ==
    /\ last.op = "assign_by_priority"
    /\ last.ret # None
    /\ \E i \in 1..Len(task_queue) :
          LET T == Unwrap(last.ret)[2]
          IN /\ task_queue[i].id[2] < T.id[2]
             /\ task_queue[i].required_role = T.required_role
             /\ task_queue[i].context.dependencies = <<>>
             /\ StrictlyBefore(T, task_queue[i])
             /\ task_queue[i].context.priority = T.context.priority

AttemptEvents(log) == {p \in 1..Len(log) : log[p][1] = "attempt"}
SleepEvents(log) == {p \in 1..Len(log) : log[p][1] = "sleep"}
ThePolicy == retry_executor.policy

RECURSIVE BackoffPrefixSum(_, _)
BackoffPrefixSum(policy, k) ==
    IF k = 0 THEN 0
    ELSE calculate_backoff(policy, k).secs + BackoffPrefixSum(policy, k - 1)

\* C15: in every run of the retry executor the number of attempts made is
\* at most max_attempts; attempts are numbered 1, 2, ... in order; the first
\* thing a run does is attempt 1, never a sleep; every attempt k >= 2 is
\* immediately preceded by one sleep of exactly backoff(k-1), and there are
\* no other sleeps; a run that succeeds on attempt k reports attempt number
\* k and has slept backoff(1) + ... + backoff(k-1) in total; with
\* max_attempts = 1 a run never sleeps.
C15_AttemptsAndSleeps ==
    \A i \in RunIds :
       LET run == runs[i]
           log == run.log
       IN /\ Cardinality(AttemptEvents(log)) <= ThePolicy.max_attempts
          /\ log # <<>> => log[1][1] = "attempt"
          /\ \A p \in AttemptEvents(log) :
                /\ log[p][2] = Cardinality({q \in AttemptEvents(log) : q <= p})
                /\ log[p][2] >= 2 =>
                      log[p - 1] = <<"sleep",
                                     calculate_backoff(ThePolicy, log[p][2] - 1).secs>>
          /\ \A p \in SleepEvents(log) :
                /\ p > 1 /\ log[p - 1][1] = "attempt"
                /\ p < Len(log) => log[p + 1][1] = "attempt"
          /\ (run.pc = "done" /\ run.result.ok) =>
                LET k == run.result.value.attempt_number
                IN /\ k = Cardinality(AttemptEvents(log))
                   /\ log[Len(log)] = <<"attempt", k, "Ok">>
                   /\ SumSecs(log) = BackoffPrefixSum(ThePolicy, k - 1)
          /\ ThePolicy.max_attempts = 1 => SleepEvents(log) = {}

\* C15 witness: a run has succeeded on attempt 3 after two sleeps.
C15_Witness ==
    \E i \in RunIds :
       /\ runs[i].pc = "done"
       /\ runs[i].result.ok
       /\ runs[i].result.value.attempt_number = 3
       /\ Cardinality(SleepEvents(runs[i].log)) = 2
       /\ SumSecs(runs[i].log) > 0

\* C16: when an attempt fails with a class that is not in retry_on, the run
\* returns NonRetryable(class) in that step, also on the last allowed attempt
\* and with an empty retry_on; when the class is in retry_on, the run returns
\* MaxAttemptsExceeded(max_attempts) if the attempt was number max_attempts
\* and otherwise goes on to the sleep before the next attempt; a run that
\* has returned makes no further attempt and no further sleep.
C16_FailureHandling ==
    [][\A i \in RunIds :
          /\ (runs[i].pc = "attempt" /\ runs'[i] # runs[i]) =>
                LET log == runs'[i].log
                    class == log[Len(log)][3]
                    k == runs[i].attempt
                IN /\ Len(log) = Len(runs[i].log) + 1
                   /\ log[Len(log)][2] = k
                   /\ class # "Ok" =>
                        IF class \notin ThePolicy.retry_on
                        THEN /\ runs'[i].pc = "done"
                             /\ runs'[i].result = [ok |-> FALSE,
                                                   error |-> <<"NonRetryable", class>>]
                        ELSE IF k = ThePolicy.max_attempts
                        THEN /\ runs'[i].pc = "done"
                             /\ runs'[i].result =
                                   [ok |-> FALSE,
                                    error |-> <<"MaxAttemptsExceeded",
                                                ThePolicy.max_attempts>>]
                        ELSE /\ runs'[i].pc = "sleep"
                             /\ runs'[i].attempt = k + 1
          /\ runs[i].pc = "done" => runs'[i] = runs[i]]_vars

\* C16 witness: a run has returned NonRetryable on its last allowed attempt,
\* after earlier attempts failed with a retried class.
C16_Witness ==
    \E i \in RunIds :
       /\ runs[i].pc = "done"
       /\ ~runs[i].result.ok
       /\ runs[i].result.error[1] = "NonRetryable"
       /\ runs[i].attempt = ThePolicy.max_attempts
       /\ runs[i].attempt >= 2

\* min(initial_backoff * backoff_multiplier^(n-1), max_backoff) for n >= 1.
\* The policies fed in have a multiplier of at least 2 and a max_backoff
\* below 2^14 seconds, so from n = 16 on the power exceeds the cap.
CappedPower(policy, n) ==
    IF n <= 15
    THEN Min(policy.initial_backoff * policy.backoff_multiplier^(n - 1),
             policy.max_backoff)
    ELSE policy.max_backoff

\* C17: calculate_backoff(0) is zero and, for every n >= 1,
\* calculate_backoff(n) returns min(initial_backoff * multiplier^(n-1),
\* max_backoff); the value never exceeds max_backoff and
\* calculate_backoff(n) <= calculate_backoff(n+1).
C17_BackoffIsCappedPower ==
    backoff_call # None =>
       LET n == Unwrap(backoff_call).attempt
           result == Unwrap(backoff_call).result
           next == calculate_backoff(ThePolicy, n + 1)
       IN /\ result.ok
          /\ result.secs = IF n = 0 THEN 0 ELSE CappedPower(ThePolicy, n)
          /\ result.secs <= ThePolicy.max_backoff
          /\ next.ok
          /\ result.secs <= next.secs

\* the states an invocation goes through when it runs alone
RECURSIVE StatesAlone(_, _)
StatesAlone(policy, run) ==
    {run} \cup (IF run.pc \in {"done", "panicked"} THEN {}
                ELSE StatesAlone(policy, StepRun(policy, run)))

\* C20: under every interleaving of the steps of concurrent retry runs,
\* each run goes through the states it goes through when it runs alone
\* (same attempts, same sleeps), and returns what it returns alone.
C20_RunsAreIndependent ==
    \A i \in RunIds :
       runs[i].pc # "idle" =>
          LET task == Unwrap(runs[i].task)
          IN /\ runs[i] \in StatesAlone(ThePolicy, BeginRun(ThePolicy, task))
             /\ runs[i].pc \in {"done", "panicked"} =>
                   runs[i] = execute_task(ThePolicy, task)

\* C20 witness: two runs for different tasks are in progress at once, one
\* asleep before its second attempt and one about to make its third.
C20_Witness ==
    /\ runs[1].pc = "sleep"
    /\ runs[1].attempt = 2
    /\ runs[2].pc = "attempt"
    /\ runs[2].attempt = 3
    /\ runs[1].task # runs[2].task

(* ------------------- claims: execution with retry --------------------- *)
\* the retry run a call execute_task_with_retry(agent_id, task) makes
InnerRun(call) == execute_task(retry_executor.policy, call.args[2])

\* C18: when the retry run inside execute_task_with_retry ends with a retry
\* error e, execute_task_with_retry returns that same error e, unchanged.
C18_RetryErrorReturnedUnchanged ==
    [][CallOf("execute_task_with_retry") /\ last'.args[1] \in DOMAIN agents =>
          LET run == InnerRun(last')
          IN (run.pc = "done" /\ ~run.result.ok) =>
                last'.ret = <<"Err", run.result.error>>]_vars

\* C19: execute_task_with_retry leaves the agents (status, current task),
\* the active sets, the completed set, the queue and every counter but
\* tasks_retried as they were, whether it returns success or an error; a
\* run that succeeded on attempt k adds exactly k-1 to tasks_retried and
\* records one more task in the expertise of that agent and of no other;
\* a call that returns an error changes neither.
C19_NoTerminalTransition ==
    [][CallOf("execute_task_with_retry") =>
          LET agent_id == last'.args[1]
          IN /\ agents' = agents
             /\ active_agents' = active_agents
             /\ completed_tasks' = completed_tasks
             /\ task_queue' = task_queue
             /\ max_concurrent' = max_concurrent
             /\ [metrics' EXCEPT !.tasks_retried = 0] = [metrics EXCEPT !.tasks_retried = 0]
             /\ \A a \in DOMAIN agent_expertise' \ {agent_id} :
                   a \in DOMAIN agent_expertise /\ agent_expertise'[a] = agent_expertise[a]
             /\ IF last'.ret[1] = "Ok"
                THEN LET k == InnerRun(last').result.value.attempt_number
                     IN /\ metrics'.tasks_retried = metrics.tasks_retried + k - 1
                        /\ ExpertiseTotal(agent_expertise', agent_id) =
                              ExpertiseTotal(agent_expertise, agent_id) + 1
                ELSE /\ metrics'.tasks_retried = metrics.tasks_retried
                     /\ agent_expertise' = agent_expertise]_vars

\* C19 witness: a call for a Working agent has just returned success on
\* its third attempt; the agent still holds its task, nothing is completed
\* or failed, and two retries are counted.
C19_Witness ==
    /\ last.op = "execute_task_with_retry"
    /\ last.ret[1] = "Ok"
    /\ last.ret[2].attempt_number = 3
    /\ agents[last.args[1]].status = "Working"
    /\ agents[last.args[1]].current_task # None
    /\ metrics.tasks_retried = 2
    /\ metrics.tasks_completed = 0
    /\ ExpertiseTotal(agent_expertise, last.args[1]) = 1

(* ------------------------- claims: supervision ------------------------ *)
\* the events a step appends to the history
NewEvents == SubSeq(supervision_history', Len(supervision_history) + 1,
                    Len(supervision_history'))

\* the step keeps the history it found and may only append to it
HistoryExtended ==
    /\ Len(supervision_history') >= Len(supervision_history)
    /\ SubSeq(supervision_history', 1, Len(supervision_history)) = supervision_history

\* the step leaves the requests of the agents outside S as they were and
\* removes those of the agents in S
RemovesExactly(S) ==
    /\ DOMAIN active_requests' = DOMAIN active_requests \ S
    /\ \A a \in DOMAIN active_requests' : active_requests'[a] = active_requests[a]

\* C21: a request is filed under its own agent, so an agent has at most one
\* active request; check_supervision_need(A, text) returns none and changes
\* neither the active requests nor the history when A has an active
\* request; it returns a request exactly when A has none and the text's
\* classification needs help, and then that request becomes A's active
\* request and one RequestGenerated event is appended.
C21_OneActiveRequestPerAgent ==
    /\ [](\A a \in DOMAIN active_requests : active_requests[a].agent_id = a)
    /\ [][CallOf("check_supervision_need") =>
            LET agent == last'.args[1]
                text == last'.args[2]
                had == agent.id \in DOMAIN active_requests
                help == classify_activity(text).needs_help
                returned == last'.ret[2]
            IN /\ last'.ret[1] = "Ok"
               /\ had => /\ returned = None
                         /\ active_requests' = active_requests
                         /\ supervision_history' = supervision_history
               /\ returned # None <=> (~had /\ help)
               /\ returned = None =>
                     /\ active_requests' = active_requests
                     /\ supervision_history' = supervision_history
               /\ returned # None =>
                     /\ Unwrap(returned).agent_id = agent.id
                     /\ active_requests' =
                           MapInsert(active_requests, agent.id, Unwrap(returned))
                     /\ HistoryExtended
                     /\ Len(NewEvents) = 1
                     /\ NewEvents[1].agent_id = agent.id
                     /\ NewEvents[1].event_type = "RequestGenerated"]_vars

\* C21 witness: A's first request was resolved by a selected option, and a
\* later check_supervision_need for A has just returned a fresh request.
C21_Witness ==
    /\ last.op = "check_supervision_need"
    /\ last.ret[2] # None
    /\ Len(supervision_history) = 3
    /\ \A i \in 1..3 : supervision_history[i].agent_id = last.args[1].id
    /\ supervision_history[1].event_type = "RequestGenerated"
    /\ supervision_history[2].event_type = "OptionSelected"
    /\ supervision_history[3].event_type = "RequestGenerated"
    /\ last.args[1].id \in DOMAIN active_requests

\* C22: handle_supervision_response(A, id), called while A has an active
\* request one of whose options has this id, removes A's request and no
\* other, appends exactly one OptionSelected event for A, and returns the
\* action of the option with that id.
C22_ResponseResolvesRequest ==
    [][(/\ CallOf("handle_supervision_response")
        /\ last'.args[1] \in DOMAIN active_requests
        /\ \E i \in 1..Len(active_requests[last'.args[1]].options) :
              active_requests[last'.args[1]].options[i].id = last'.args[2]) =>
          LET agent_id == last'.args[1]
              options == active_requests[agent_id].options
              chosen == CHOOSE i \in 1..Len(options) : options[i].id = last'.args[2]
          IN /\ RemovesExactly({agent_id})
             /\ HistoryExtended
             /\ Len(NewEvents) = 1
             /\ NewEvents[1].agent_id = agent_id
             /\ NewEvents[1].event_type = "OptionSelected"
             /\ NewEvents[1].resolution = Some(options[chosen].action)
             /\ last'.ret = <<"Ok", options[chosen].action>>]_vars

\* C22 witness: two agents had active requests; a response for one of them
\* has just returned the action of its third option, and the other
\* agent's request is still active.
C22_Witness ==
    /\ last.op = "handle_supervision_response"
    /\ last.args[2] = 3
    /\ last.ret[1] = "Ok"
    /\ last.args[1] \notin DOMAIN active_requests
    /\ DOMAIN active_requests # {}
    /\ supervision_history[Len(supervision_history)].event_type = "OptionSelected"

\* the active requests older than their timeout at the time `clock`
ExpiredNow == {a \in DOMAIN active_requests :
                  clock - active_requests[a].created_at > active_requests[a].timeout}

\* C23: cleanup_expired_requests removes exactly the active requests whose
\* age strictly exceeds their timeout, appends exactly one Timeout event
\* for each of them and leaves the others untouched; a second call right
\* after it (the clock has not moved, no request was added) removes
\* nothing and appends nothing.
C23_CleanupRemovesExpired ==
    /\ [][CallOf("cleanup_expired_requests") =>
            /\ RemovesExactly(ExpiredNow)
            /\ HistoryExtended
            /\ Len(NewEvents) = Cardinality(ExpiredNow)
            /\ \A i \in 1..Len(NewEvents) : NewEvents[i].event_type = "Timeout"
            /\ \A a \in ExpiredNow :
                  Cardinality({i \in 1..Len(NewEvents) : NewEvents[i].agent_id = a}) = 1]_vars
    /\ [][(/\ last.op = "cleanup_expired_requests"
           /\ last'.op = "cleanup_expired_requests"
           /\ last.args[1] = clock
           /\ last'.args[1] = clock) =>
             /\ active_requests' = active_requests
             /\ supervision_history' = supervision_history]_vars

\* C23 witness: a cleanup has just removed a request of age 60 and kept a
\* request whose age equals its timeout.
C23_Witness ==
    /\ last.op = "cleanup_expired_requests"
    /\ clock = 60
    /\ Len(supervision_history) = 3
    /\ supervision_history[3].event_type = "Timeout"
    /\ \E a \in DOMAIN active_requests :
          clock - active_requests[a].created_at = active_requests[a].timeout

\* the active requests whose first option is ProvideGuidance or RequestMoreInfo
SafeRequests ==
    {a \in DOMAIN active_requests :
        /\ Len(active_requests[a].options) >= 1
        /\ active_requests[a].options[1].action[1] \in {"ProvideGuidance", "RequestMoreInfo"}}

\* C24: with the flag off auto_resolve_requests changes nothing and returns
\* an empty list; with the flag on it removes exactly the active requests
\* whose first option is ProvideGuidance or RequestMoreInfo, appends one
\* AutoResolved event for each, returns each removed agent paired with the
\* action of that first option, and leaves the other requests active.
C24_AutoResolve ==
    [][CallOf("auto_resolve_requests") =>
          LET resolutions == last'.ret[2]
          IN IF ~auto_supervision
             THEN /\ resolutions = <<>>
                  /\ active_requests' = active_requests
                  /\ supervision_history' = supervision_history
             ELSE /\ RemovesExactly(SafeRequests)
                  /\ HistoryExtended
                  /\ Len(NewEvents) = Cardinality(SafeRequests)
                  /\ Len(resolutions) = Cardinality(SafeRequests)
                  /\ \A i \in 1..Len(NewEvents) : NewEvents[i].event_type = "AutoResolved"
                  /\ \A a \in SafeRequests :
                        /\ Cardinality({i \in 1..Len(NewEvents) :
                                           NewEvents[i].agent_id = a}) = 1
                        /\ \E i \in 1..Len(resolutions) :
                              resolutions[i] = <<a, active_requests[a].options[1].action>>]_vars

\* C24 witness: with the flag on, a call has just resolved one request and
\* left active a request whose first option is TakeOver.
C24_Witness ==
    /\ last.op = "auto_resolve_requests"
    /\ auto_supervision
    /\ Len(last.ret[2]) = 1
    /\ \E a \in DOMAIN active_requests :
          active_requests[a].options[1].action = <<"TakeOver">>
    /\ supervision_history[Len(supervision_history)].event_type = "AutoResolved"

(* ------------------ claims: requests and their options ---------------- *)
\* a request has just been generated from the classification `activity`
\* and the output `recent_output`
RequestGenerated ==
    /\ last.op = "generate_supervision_dialogue"
    /\ last.ret # None

\* the kind of an action, with the role for ReassignTask
ActionKind(action) == IF action[1] = "ProvideGuidance" THEN <<"ProvideGuidance">> ELSE action

\* the option list the rules of C25 ask for
ExpectedActions(activity, recent_output) ==
    (IF activity.primary = "Stuck"
     THEN << <<"ProvideGuidance">>, <<"BreakDownTask">> >>
     ELSE IF activity.primary = "Debugging" /\ contains(recent_output, "error")
     THEN << <<"ProvideGuidance">> >>
     ELSE << <<"RequestMoreInfo">> >>)
    \o (IF activity.emotional_state = "Desperate" THEN << <<"TakeOver">> >>
        ELSE IF activity.emotional_state = "Frustrated"
        THEN << <<"ReassignTask", "Debugger">> >>
        ELSE << >>)
    \o << <<"IgnoreForNow">>, <<"EscalateToHuman">> >>

\* C25: the options of every generated request are, in this order:
\* ProvideGuidance and BreakDownTask for Stuck, else ProvideGuidance for
\* Debugging with "error" in the output, else RequestMoreInfo; then
\* TakeOver for Desperate or ReassignTask(Debugger) for Frustrated; then
\* IgnoreForNow and EscalateToHuman.
C25_OptionListFollowsRules ==
    RequestGenerated =>
        LET options == Unwrap(last.ret).options
        IN [i \in 1..Len(options) |-> ActionKind(options[i].action)]
              = ExpectedActions(last.args[2], last.args[3])

\* C26: every generated request has a non-empty option list whose ids are
\* 1, 2, ..., n in list order (hence pairwise distinct).
C26_OptionIdsCountFromOne ==
    RequestGenerated =>
        LET options == Unwrap(last.ret).options
        IN /\ Len(options) >= 1
           /\ \A i \in 1..Len(options) : options[i].id = i
           /\ \A i, j \in 1..Len(options) : i # j => options[i].id # options[j].id

\* C26 witness: a request for a Stuck and Desperate agent with the five
\* options numbered 1 to 5.
C26_Witness ==
    /\ RequestGenerated
    /\ last.args[2].primary = "Stuck"
    /\ last.args[2].emotional_state = "Desperate"
    /\ Len(Unwrap(last.ret).options) = 5
    /\ Unwrap(last.ret).options[5].id = 5

RuleKeywords ==
    << {"error", "failed", "exception"}, {"test", "spec", "assert"},
       {"mkdir", "cargo init", "setup"}, {"implementing", "writing", "adding"},
       {"reading", "docs", "researching"}, {"waiting", "pending"},
       {"stuck", "confused", "help"} >>

\* the activity rule i gives to the lower-cased text t it matches
RuleActivity(i, t) ==
    CASE i = 1 -> IF ContainsAny(t, {"fixing", "debug"}) THEN "Debugging" ELSE "Stuck"
      [] i = 2 -> "Testing"
      [] i = 3 -> "Scaffolding"
      [] i = 4 -> "Implementing"
      [] i = 5 -> "Researching"
      [] i = 6 -> "Waiting"
      [] i = 7 -> "Stuck"

\* C28: the activity of a text is that of the first rule of the keyword
\* hierarchy that matches the lower-cased text, and Implementing when no
\* rule matches; a text with "stuck" and "test" and no error keyword is
\* Testing.
C28_FirstMatchingRule ==
    last.op = "classify_activity" =>
        LET t == to_lowercase(last.args[1])
            matching == {i \in 1..Len(RuleKeywords) : ContainsAny(t, RuleKeywords[i])}
        IN /\ last.ret.primary =
                 IF matching = {} THEN "Implementing" ELSE RuleActivity(MinOf(matching), t)
           /\ (/\ contains(t, "stuck")
               /\ contains(t, "test")
               /\ ~ContainsAny(t, {"error", "failed", "exception"}))
                 => last.ret.primary = "Testing"

\* C28 witness: a text with "stuck", "help" and "test" was classified as
\* Testing.
C28_Witness ==
    /\ last.op = "classify_activity"
    /\ contains(last.args[1], "stuck")
    /\ contains(last.args[1], "help")
    /\ contains(last.args[1], "test")
    /\ last.ret.primary = "Testing"

\* needs_help of every text is: Stuck, or confidence below 0.3 with Desperate
NeedsHelpRule ==
    \A text \in ClassifierTexts \cup SupervisionOutputs :
        LET c == classify_activity(text)
        IN c.needs_help <=>
              (c.primary = "Stuck"
               \/ (c.confidence < 30 /\ c.emotional_state = "Desperate"))

\* C29: needs_help of a text is true exactly when its activity is Stuck or
\* its confidence is below 0.3 and its emotion Desperate, and
\* check_supervision_need creates a request only for such a text.
C29_HelpOnlyWhenStuckOrDesperate ==
    /\ [](NeedsHelpRule)
    /\ [][(CallOf("check_supervision_need") /\ last'.ret[2] # None) =>
            LET c == classify_activity(last'.args[2])
            IN c.primary = "Stuck"
               \/ (c.confidence < 30 /\ c.emotional_state = "Desperate")]_vars

\* C29 witness: a request was created for a text that is not Stuck but
\* Desperate with confidence 0.1.
C29_Witness ==
    /\ last.op = "check_supervision_need"
    /\ last.ret[2] # None
    /\ classify_activity(last.args[2]).primary = "Testing"
    /\ classify_activity(last.args[2]).emotional_state = "Desperate"
    /\ classify_activity(last.args[2]).confidence = 10

(* --------------------------- claims: determinism ---------------------- *)
\* C30: for a fixed sequence of scheduler operations, what each operation
\* returns, which agent receives each task and the metrics after each
\* operation (bottleneck_role included) are the same in every run: every
\* step that assigns a task had one agent to choose from, and every step
\* that recomputes the metrics had one bottleneck role to store, whatever
\* the iteration order of the maps.
C30_OutcomeIsFunctionOfSequence ==
    [][/\ (last' # last /\ last'.assigned # None) =>
             Cardinality(AvailableAgents(Unwrap(last'.assigned).required_role)) = 1
       /\ ((CallOf("complete_task") \/ CallOf("fail_task")) /\ last'.ret = Ok) =>
             Cardinality(BottleneckOptions(metrics, active_agents', max_concurrent)) = 1]_vars

(* ----------------------- claims: status snapshots --------------------- *)
\* the roles of maximal utilization in a utilization map
MaximalRoles(util) ==
    {r \in DOMAIN util : \A q \in DOMAIN util : RatioLeq(util[q], util[r])}

\* the role of S seen first in RoleOrder
FirstSeen(S) ==
    RoleOrder[MinOf({i \in 1..Len(RoleOrder) : RoleOrder[i] \in S})]

\* the snapshot returned by the get_status call just made
StatusReturned == last'.ret

\* C31: in every status snapshot, utilization[r] equals active[r] / cap[r]
\* for each role r (0 when cap[r] is 0), and bottleneck_role is a role whose
\* utilization is maximal, the first-seen such role when several roles tie.
C31_UtilizationAndBottleneck ==
    [][CallOf("get_status") =>
         LET status == StatusReturned
             util == status.metrics.agent_utilization
         IN /\ DOMAIN util = DOMAIN status.capacity_per_role
            /\ \A r \in DOMAIN util :
                  util[r] = IF status.capacity_per_role[r] = 0
                            THEN Ratio(0, 1)
                            ELSE Ratio(IF r \in DOMAIN status.active_per_role
                                       THEN status.active_per_role[r] ELSE 0,
                                       status.capacity_per_role[r])
            /\ status.metrics.bottleneck_role # None
            /\ Unwrap(status.metrics.bottleneck_role) \in MaximalRoles(util)
            /\ Unwrap(status.metrics.bottleneck_role) = FirstSeen(MaximalRoles(util))]_vars

\* the part of C31 that does not depend on how ties are broken
C31_UtilizationAndMaximalBottleneck ==
    [][CallOf("get_status") =>
         LET status == StatusReturned
             util == status.metrics.agent_utilization
         IN /\ DOMAIN util = DOMAIN status.capacity_per_role
            /\ \A r \in DOMAIN util :
                  util[r] = IF status.capacity_per_role[r] = 0
                            THEN Ratio(0, 1)
                            ELSE Ratio(IF r \in DOMAIN status.active_per_role
                                       THEN status.active_per_role[r] ELSE 0,
                                       status.capacity_per_role[r])
            /\ status.metrics.bottleneck_role # None
            /\ Unwrap(status.metrics.bottleneck_role) \in MaximalRoles(util)]_vars

(* ------------------------- claims: stuck agents ----------------------- *)
\* the agents that are Working and have been without activity for strictly
\* longer than the threshold
WorkingLongerThan(threshold) ==
    {a \in DOMAIN agents :
        agents[a].status = "Working" /\ agents[a].elapsed > threshold}

\* C32: check_for_stuck_agents(threshold) returns exactly the ids of the
\* agents that are Working with now - last_activity strictly greater than
\* threshold, moves exactly those agents to NeedsSupervision, and changes no
\* other agent; an agent that is not Working is never returned or changed.
C32_StuckAgentsReturnedAndMoved ==
    [][CallOf("check_for_stuck_agents") =>
         LET stuck == WorkingLongerThan(last'.args[1])
         IN /\ last'.ret = stuck
            /\ DOMAIN agents' = DOMAIN agents
            /\ \A a \in stuck : agents'[a].status = "NeedsSupervision"
            /\ \A a \in DOMAIN agents \ stuck : agents'[a] = agents[a]
            /\ \A a \in DOMAIN agents :
                  agents[a].status # "Working" =>
                      a \notin last'.ret /\ agents'[a] = agents[a]]_vars

\* a call has returned one agent and left alone an agent that is Working
\* and has been without activity for exactly the threshold, and an agent
\* that is not Working
C32_Witness ==
    /\ last.op = "check_for_stuck_agents"
    /\ \E a \in last.ret : agents[a].status = "NeedsSupervision"
    /\ \E a \in DOMAIN agents \ last.ret :
          agents[a].status = "Working" /\ agents[a].elapsed = last.args[1]

(* ---------------------- claims: nothing assignable -------------------- *)
\* C33: when try_assign_next_task returns none, because the queue is empty
\* or no queued task is assignable, the scheduler state is unchanged: the
\* same queue in the same order, the same agents, the same active sets, the
\* same completed set and the same metrics.
C33_NoneLeavesStateUnchanged ==
    [][(CallOf("try_assign_next_task") /\ last'.ret = None) =>
         /\ task_queue' = task_queue
         /\ agents' = agents
         /\ active_agents' = active_agents
         /\ completed_tasks' = completed_tasks
         /\ metrics' = metrics
         /\ SchedulerState' = SchedulerState]_vars

\* the call has returned none with tasks waiting in the queue
C33_Witness ==
    /\ last.op = "try_assign_next_task"
    /\ last.ret = None
    /\ Len(task_queue) >= 2

\* the call has returned none on an empty queue
C33_WitnessEmptyQueue ==
    /\ last.op = "try_assign_next_task"
    /\ last.ret = None
    /\ task_queue = <<>>

(* ----------------------- claims: invalid responses -------------------- *)
\* C34: handle_supervision_response(A, id), called with an id that is not
\* an option id of A's active request, fails with InvalidOption(id) and
\* changes nothing: A's request is still active afterwards, so a later call
\* with a valid id can still resolve it, and no history event is appended.
C34_InvalidOptionChangesNothing ==
    [][(/\ CallOf("handle_supervision_response")
        /\ last'.args[1] \in DOMAIN active_requests
        /\ \A i \in 1..Len(active_requests[last'.args[1]].options) :
              active_requests[last'.args[1]].options[i].id # last'.args[2]) =>
          /\ last'.ret = ErrWith("InvalidOption", last'.args[2])
          /\ last'.args[1] \in DOMAIN active_requests'
          /\ active_requests' = active_requests
          /\ supervision_history' = supervision_history]_vars

(* --------------------- claims: expertise on completion ---------------- *)
\* C35: a successful complete_task(a, t) updates a's expertise record for
\* t: afterwards a's expertise total_tasks is exactly one higher than
\* before the call.
C35_CompleteTaskUpdatesExpertise ==
    [][(CallOf("complete_task") /\ last'.ret = Ok) =>
         /\ last'.args[1] \in DOMAIN agent_expertise'
         /\ agent_expertise'[last'.args[1]].total_tasks =
               ExpertiseTotal(agent_expertise, last'.args[1]) + 1]_vars

(* ---------------------- claims: exclusive assignment ------------------ *)
\* the agents that hold the task id as their current task
HoldersOf(task_id) ==
    {a \in DOMAIN agents : agents[a].current_task = Some(task_id)}

\* C36: assignment is exclusive: a task is only ever given to an agent that
\* is Idle at that moment (an attempt to assign to a non-Idle agent fails
\* and changes nothing), and with distinct task ids no task id is the
\* current task of two different agents at the same time.
C36_AssignmentIsExclusive ==
    /\ [](\A task_id \in TaskIds : Cardinality(HoldersOf(task_id)) <= 1)
    /\ [](\A a \in DOMAIN agents : \A task_id \in TaskIds :
            agents[a].status # "Idle" =>
                /\ ~Agent_assign_task(agents[a], task_id).ok
                /\ Agent_assign_task(agents[a], task_id).agent = agents[a])
    /\ [][\A a \in DOMAIN agents' :
            (/\ agents'[a].current_task # None
             /\ (a \notin DOMAIN agents
                    \/ agents[a].current_task # agents'[a].current_task)) =>
                /\ a \in DOMAIN agents
                /\ agents[a].status = "Idle"
                /\ agents[a].current_task = None
                /\ last'.assigned # None
                /\ Unwrap(last'.assigned).id = Unwrap(agents'[a].current_task)
                /\ HoldersOf(Unwrap(agents'[a].current_task)) = {}]_vars

\* two agents hold different tasks at once, one put into NeedsSupervision
\* since, and the last call has just handed one of them its task
C36_Witness ==
    /\ last.assigned # None
    /\ \E a, b \in DOMAIN agents :
          /\ a # b
          /\ agents[a].current_task = Some(Unwrap(last.assigned).id)
          /\ agents[b].current_task # None
          /\ agents[b].status = "NeedsSupervision"

(* -------------------- claims: conservation of tasks ------------------- *)
\* how often a task id occurs in the queue and in the completed list
TimesQueued(task_id) ==
    Cardinality({i \in 1..Len(task_queue) : task_queue[i].id = task_id})
TimesCompleted(task_id) ==
    Cardinality({i \in 1..Len(completed_tasks) : completed_tasks[i] = task_id})

\* the task ids queued so far that are in none of the three places
Unplaced ==
    {task_id \in created :
        TimesQueued(task_id) + Cardinality(HoldersOf(task_id))
            + TimesCompleted(task_id) = 0}

\* the agents holding a current task
HoldingAgents == {a \in DOMAIN agents : agents[a].current_task # None}

\* C37: no task is lost or duplicated: provided every task enters through
\* queue_task with a distinct id and is assigned only by
\* try_assign_next_task or assign_by_priority, in every reachable state each
\* such task id is in exactly one place (still in the queue, the current
\* task of exactly one agent, in the completed set, or counted once in
\* tasks_failed), so the number of tasks queued so far equals |queue| + the
\* number of agents holding a current task + tasks_completed + tasks_failed.
C37_NoTaskLostOrDuplicated ==
    /\ \A task_id \in created :
          TimesQueued(task_id) + Cardinality(HoldersOf(task_id))
              + TimesCompleted(task_id) <= 1
    /\ Cardinality(Unplaced) = metrics.tasks_failed
    /\ Len(completed_tasks) = metrics.tasks_completed
    /\ Cardinality(created) =
          Len(task_queue) + Cardinality(HoldingAgents)
              + metrics.tasks_completed + metrics.tasks_failed

\* the part of C37 that holds: no task id is in two places at once
C37_NoTaskDuplicated ==
    \A task_id \in created :
        TimesQueued(task_id) + Cardinality(HoldersOf(task_id))
            + TimesCompleted(task_id) <= 1

(* --------------------- claims: requests and history ------------------- *)
\* the positions of the history events of an agent
EventsOf(agent_id) ==
    {i \in 1..Len(supervision_history) : supervision_history[i].agent_id = agent_id}

\* the most recent history event of an agent is RequestGenerated
LatestIsRequestGenerated(agent_id) ==
    /\ EventsOf(agent_id) # {}
    /\ LET latest == CHOOSE i \in EventsOf(agent_id) :
                         \A j \in EventsOf(agent_id) : j <= i
       IN supervision_history[latest].event_type = "RequestGenerated"

\* C38: in every reachable supervision state and for every agent A, A has
\* an active request if and only if the most recent history event for A is
\* RequestGenerated: every creation of a request is recorded by one
\* RequestGenerated event and every removal of a request by exactly one
\* OptionSelected, Timeout or AutoResolved event.
C38_ActiveIffLatestEventIsRequest ==
    \A agent_id \in AgentIds :
        agent_id \in DOMAIN active_requests <=> LatestIsRequestGenerated(agent_id)

(* ------------------------ claims: agents in Error --------------------- *)
\* every registered agent of the role is in Error, and there is one
AllInError(role) ==
    /\ \E a \in DOMAIN agents : agents[a].role = role
    /\ \A a \in DOMAIN agents : agents[a].role = role => agents[a].status = "Error"

\* the task id is in the queue, for the role
QueuedFor(task_id, role) ==
    \E i \in 1..Len(task_queue) :
        task_queue[i].id = task_id /\ task_queue[i].required_role = role

\* the step is a register_agent call with a record for this id
Registers(agent_id) ==
    CallOf("register_agent") /\ last'.args[1] = agent_id

\* C39, amended: once fail_task has put an agent into Error, no scheduler
\* operation returns that agent to Idle or assigns it a task again, except
\* register_agent with a new record under the same id; and as long as every
\* agent of a role is in Error, no operation assigns a queued task of that
\* role: it stays in the queue until an agent of the role that is not in
\* Error has been registered.
C39_ErrorAgentsStayOut ==
    [][/\ \A a \in DOMAIN agents :
            (agents[a].status = "Error" /\ ~Registers(a)) =>
                /\ a \in DOMAIN agents'
                /\ agents'[a].status = "Error"
                /\ agents'[a].current_task = None
       /\ \A role \in AgentRole : \A task_id \in TaskIds :
            (AllInError(role) /\ QueuedFor(task_id, role)) =>
                /\ QueuedFor(task_id, role)'
                /\ HoldersOf(task_id)' = {}]_vars

\* a record registered under the id of an agent in Error has brought the
\* agent back to Idle, while a task of its role waited in the queue
C39_Witness ==
    /\ last.op = "register_agent"
    /\ agents[last.args[1]].status = "Idle"
    /\ metrics.tasks_failed > 0
    /\ \E i \in 1..Len(task_queue) :
          /\ task_queue[i].required_role = last.args[2]
          /\ \A a \in DOMAIN agents :
                (a # last.args[1] /\ agents[a].role = last.args[2]) =>
                    agents[a].status = "Error"
    /\ \E a \in DOMAIN agents : agents[a].status = "Error"

\* C39 as stated: once fail_task has put an agent into Error it never
\* returns to Idle or receives a task (only a new record under its id
\* replaces it); hence, if every agent of a role is in Error, a queued task
\* of that role is never assigned however many further scheduler operations
\* are performed: after any operation other than a registration under an id
\* in use, the task is still in the queue and still cannot be handed out.
C39_ErrorRoleBlocksItsTasksForever ==
    [][\A role \in AgentRole : \A task_id \in TaskIds :
          (/\ AllInError(role)
           /\ QueuedFor(task_id, role)
           /\ \A a \in DOMAIN agents : ~Registers(a)) =>
              /\ QueuedFor(task_id, role)'
              /\ \A j \in 1..Len(task_queue') :
                    task_queue'[j].id = task_id => ~AssignableNow(task_queue[j])']_vars

(* ---------------------- claims: urgency of requests ------------------- *)
\* C40: every request created by check_supervision_need has urgency
\* Critical, High or Low and never Medium: with the rule-based classifier a
\* help-needing classification is Desperate, Frustrated, or Stuck with
\* confidence at least 0.6, so the rules 'confidence < 0.4 and Stuck' and
\* 'confidence <= 0.3' never decide the urgency of a generated request.
C40_NoMediumUrgency ==
    /\ \A a \in DOMAIN active_requests :
          active_requests[a].urgency \in {"Critical", "High", "Low"}
    /\ (last.op = "check_supervision_need" /\ last.ret[2] # None) =>
          LET activity == classify_activity(last.args[2])
              request == Unwrap(last.ret[2])
          IN /\ request.urgency \in {"Critical", "High", "Low"}
             /\ \/ activity.emotional_state \in {"Desperate", "Frustrated"}
                \/ activity.primary = "Stuck" /\ activity.confidence >= 60
             /\ request.urgency = "Critical" <=> activity.emotional_state = "Desperate"
             /\ request.urgency = "High" <=> activity.emotional_state = "Frustrated"
             /\ request.urgency = "Low" =>
                    activity.primary = "Stuck" /\ activity.confidence >= 60

\* a request of urgency Low has been created, for a text classified as
\* Stuck with confidence 0.6 and emotion Cautious
C40_Witness ==
    /\ last.op = "check_supervision_need"
    /\ last.ret[2] # None
    /\ Unwrap(last.ret[2]).urgency = "Low"
    /\ classify_activity(last.args[2]).primary = "Stuck"
    /\ classify_activity(last.args[2]).confidence = 60
    /\ last.args[1].id \in DOMAIN active_requests

====
